---- MODULE Spec2Model ----
(***************************************************************************)
(* A model of menpo's dense-correspondence pipeline:                       *)
(*   menpo/mm/corresponder.py      TriMeshCorresponder, FlattenInterpolator,*)
(*                                 prune_trilist, sample_points_and_trilist *)
(*   menpo/correspond/flatinterp.py FlattenInterp, AlignFlattenInterp,      *)
(*                                 AFIRasterizer                            *)
(*                                                                         *)
(* Coordinates are integers.  The x axis of the flattened (unwrapped)      *)
(* space is measured in octants of azimuth times the radius, so np.pi is   *)
(* PI == 4 of these units.  Fractions (dead zone, clip space scale) are    *)
(* tenths.  Sequences are 1-based: point index i of the model is index     *)
(* i-1 of the numpy arrays; image rows and columns are 0-based as in the   *)
(* code.                                                                   *)
(***************************************************************************)
EXTENDS Integers, Sequences, FiniteSets, TLC

\* ------------------------------------------------------------------------
\* Bounds of the model
\* ------------------------------------------------------------------------
\* number of calls the caller makes on the constructed objects
MaxCalls == 3
\* largest image_width option the caller constructs with
MaxImageWidth == 4

\* np.pi, in octants of azimuth (see the header)
PI == 4
\* denominator of the fractions dead_zone and clip_space_scale (tenths)
TENTHS == 10

\* ------------------------------------------------------------------------
\* Small helpers
\* ------------------------------------------------------------------------
Abs(n) == IF n < 0 THEN -n ELSE n
Max2(m, n) == IF m >= n THEN m ELSE n
SetMax(S) == CHOOSE m \in S : \A n \in S : n <= m
SetMin(S) == CHOOSE m \in S : \A n \in S : m <= n
Range(s) == {s[i] : i \in 1..Len(s)}

RECURSIVE SumSeq(_)
SumSeq(s) == IF s = <<>> THEN 0 ELSE Head(s) + SumSeq(Tail(s))

RECURSIVE ConcatAll(_)
ConcatAll(ss) == IF ss = <<>> THEN <<>> ELSE Head(ss) \o ConcatAll(Tail(ss))

Ok(v) == [ok |-> TRUE, val |-> v]
Err(e) == [ok |-> FALSE, err |-> e]

\* ------------------------------------------------------------------------
\* menpo.shape / menpo.transform collaborators (not part of src/)
\* ------------------------------------------------------------------------
\* A TriMesh / TexturedTriMesh: points, trilist, one landmark group, and the
\* variant tag.  A transform applied to a mesh returns a new mesh whose points
\* and landmarks are both mapped; the trilist is carried over.
TriMesh(points, trilist, landmarks, textured) ==
    [points |-> points, trilist |-> trilist, landmarks |-> landmarks,
     textured |-> textured]

ApplyToMesh(T(_), m) ==
    [m EXCEPT !.points = [i \in 1..Len(m.points) |-> T(m.points[i])],
              !.landmarks = [i \in 1..Len(m.landmarks) |-> T(m.landmarks[i])]]

\* PointCloud.range(): the extent of the points along every axis, axis 0 first
PointCloudRange(pts) ==
    [d \in 1..2 |-> SetMax({pts[i][d] : i \in 1..Len(pts)})
                    - SetMin({pts[i][d] : i \in 1..Len(pts)})]
PointCloudMin(pts) ==
    [d \in 1..2 |-> SetMin({pts[i][d] : i \in 1..Len(pts)})]

\* AlignmentSimilarity(source, target): least-squares fit on the landmarks;
\* here the translation that moves the source centroid onto the target centroid.
AlignmentSimilarity(source, target) ==
    IF Len(source) # Len(target) THEN Err("DimensionMismatchError")
    ELSE Ok([d \in 1..3 |->
              (SumSeq([i \in 1..Len(target) |-> target[i][d]])
               - SumSeq([i \in 1..Len(source) |-> source[i][d]]))
              \div Len(target)])

SimilarityApply(t, p) == <<p[1] + t[1], p[2] + t[2], p[3] + t[3]>>

\* azimuth atan2(x, z) about the y axis, to the nearest octant, in (-PI, PI]
Azimuth(x, z) ==
    IF x = 0 /\ z = 0 THEN 0
    ELSE IF 2 * Abs(x) < Abs(z)
         THEN (IF z > 0 THEN 0 ELSE IF x >= 0 THEN PI ELSE -PI)
    ELSE IF 2 * Abs(z) < Abs(x)
         THEN (IF x > 0 THEN 2 ELSE -2)
    ELSE IF x > 0 THEN (IF z > 0 THEN 1 ELSE 3)
         ELSE (IF z > 0 THEN -1 ELSE -3)

DepthFromAxis(x, z) == Max2(Abs(x), Abs(z))

\* optimal_cylindrical_unwrap(target): the fitted radius (the flattener is
\* determined by it)
OptimalRadius(target) ==
    SetMax({DepthFromAxis(target[i][1], target[i][3]) : i \in 1..Len(target)})

\* flattener.apply on one point: (azimuth * radius, height, depth from axis)
CylindricalUnwrap(radius, p) ==
    <<Azimuth(p[1], p[3]) * radius, p[2], DepthFromAxis(p[1], p[3])>>

\* ExtractNDims(2) / dims_3to2 and AppendNDims(1) / dims_2to3 on one point
ExtractNDims2(p) == <<p[1], p[2]>>
AppendNDims1(p) == <<p[1], p[2], 0>>

\* ThinPlateSplines(source, target): fails on a count mismatch and on a
\* degenerate (collinear) source configuration; otherwise an interpolant that
\* maps source landmark i onto target landmark i and carries every other point
\* with the displacement of its nearest source landmark.
Cross(a, b, p) == (b[1] - a[1]) * (p[2] - a[2]) - (b[2] - a[2]) * (p[1] - a[1])

Collinear(pts) ==
    \A i, j, k \in 1..Len(pts) : Cross(pts[i], pts[j], pts[k]) = 0

Dist2(p, q) == (p[1] - q[1]) * (p[1] - q[1]) + (p[2] - q[2]) * (p[2] - q[2])

Nearest(source, p) ==
    CHOOSE j \in 1..Len(source) :
        \A k \in 1..Len(source) :
            \/ Dist2(source[j], p) < Dist2(source[k], p)
            \/ Dist2(source[j], p) = Dist2(source[k], p) /\ j <= k

ThinPlateSplines(source, target) ==
    IF Len(source) # Len(target) THEN Err("DimensionMismatchError")
    ELSE IF Collinear(source) THEN Err("SingularSystemError")
    ELSE Ok([source |-> source, target |-> target])

TPSApply(tps, p) ==
    LET j == Nearest(tps.source, p)
    IN  <<p[1] + tps.target[j][1] - tps.source[j][1],
          p[2] + tps.target[j][2] - tps.source[j][2]>>

\* ------------------------------------------------------------------------
\* menpo.rasterize / menpo.image collaborators (not part of src/)
\* ------------------------------------------------------------------------
Pixels(height, width) == (0..(height - 1)) \X (0..(width - 1))

\* GLRasterizer(projection_matrix, width, height), the projection being
\* model_to_clip_transform(f_target_3d, xy_scale): the flattened target's
\* bounding box is scaled to occupy xy_scale of clip space.
GLRasterizer(f_target_3d, xy_scale, width, height) ==
    [width |-> width, height |-> height, xy_scale |-> xy_scale,
     lo |-> PointCloudMin(f_target_3d), extent |-> PointCloudRange(f_target_3d)]

ClipToPixel(r, d, v, n) ==
    IF r.extent[d] = 0 THEN 0
    ELSE ((r.xy_scale * (2 * (v - r.lo[d]) - r.extent[d]) + TENTHS * r.extent[d]) * n)
         \div (2 * TENTHS * r.extent[d])

\* r.model_to_image_transform on one point: its (row, column)
ModelToImage(r, p) ==
    <<ClipToPixel(r, 2, p[2], r.height), ClipToPixel(r, 1, p[1], r.width)>>

\* pixel q lies in the triangle a b c (edges included); a triangle of no area
\* covers nothing
InTriangle(a, b, c, q) ==
    LET d1 == Cross(a, b, q)
        d2 == Cross(b, c, q)
        d3 == Cross(c, a, q)
    IN  /\ Cross(a, b, c) # 0
        /\ ~ (/\ (d1 < 0 \/ d2 < 0 \/ d3 < 0)
              /\ (d1 > 0 \/ d2 > 0 \/ d3 > 0))

\* r.rasterize_mesh_with_f3v_interpolant(mesh, per_vertex_f3v): every pixel
\* covered by a triangle of mesh.trilist receives the attribute of the nearest
\* vertex of the first triangle covering it; the images carry the coverage mask.
RasterizeMeshWithF3vInterpolant(r, mesh, per_vertex_f3v) ==
    LET ip == [i \in 1..Len(mesh.points) |-> ModelToImage(r, mesh.points[i])]
        t == mesh.trilist
        cover(q) == {n \in 1..Len(t) :
                        InTriangle(ip[t[n][1]], ip[t[n][2]], ip[t[n][3]], q)}
        vertex(q) ==
            LET tri == t[SetMin(cover(q))]
                k == Nearest([j \in 1..3 |-> ip[tri[j]]], q)
            IN  tri[k]
        px == Pixels(r.height, r.width)
        covered == [q \in px |-> cover(q) # {}]
    IN  IF Len(per_vertex_f3v) # Len(mesh.points) THEN Err("RasterizerError")
        ELSE Ok([rgb_image |->
                    [height |-> r.height, width |-> r.width,
                     pixels |-> [q \in px |-> IF covered[q] THEN 1 ELSE 0],
                     mask |-> covered],
                 shape_image |->
                    [height |-> r.height, width |-> r.width,
                     pixels |-> [q \in px |-> IF covered[q]
                                              THEN per_vertex_f3v[vertex(q)]
                                              ELSE <<0, 0, 0>>],
                     mask |-> covered]])

\* MaskedImage.blank(shape) + constrain_mask_to_landmarks(): the pixels inside
\* the convex hull of the landmarks
ConstrainMaskToLandmarks(height, width, lms) ==
    [q \in Pixels(height, width) |->
        \E i, j, k \in 1..Len(lms) : InTriangle(lms[i], lms[j], lms[k], q)]

\* scipy binary_dilation(mask, iterations): the cross-shaped structuring
\* element, applied `iterations` times
Dilate(mask) ==
    [q \in DOMAIN mask |->
        \/ mask[q]
        \/ \E n \in {<<q[1] - 1, q[2]>>, <<q[1] + 1, q[2]>>,
                     <<q[1], q[2] - 1>>, <<q[1], q[2] + 1>>} :
              n \in DOMAIN mask /\ mask[n]]

RECURSIVE BinaryDilation(_, _)
BinaryDilation(mask, iterations) ==
    IF iterations = 0 THEN mask
    ELSE BinaryDilation(Dilate(mask), iterations - 1)

\* TriMesh(points) without a trilist: the triangulation of a set of lattice
\* points, two triangles for every lattice cell whose four corners are points
LatticeTrilist(pts, step) ==
    LET idx(q) == CHOOSE i \in 1..Len(pts) : pts[i] = q
        has(q) == \E i \in 1..Len(pts) : pts[i] = q
        cell(i) ==
            LET a == pts[i]
                b == <<a[1] + step, a[2]>>
                c == <<a[1], a[2] + step>>
                d == <<a[1] + step, a[2] + step>>
            IN  IF has(b) /\ has(c) /\ has(d)
                THEN << <<i, idx(b), idx(c)>>, <<idx(b), idx(d), idx(c)>> >>
                ELSE <<>>
    IN  ConcatAll([i \in 1..Len(pts) |-> cell(i)])

\* ------------------------------------------------------------------------
\* menpo/mm/corresponder.py
\* ------------------------------------------------------------------------
\* mutant of sample_points_and_trilist: the grid is not filtered by the mask
sample_points_and_trilist_unmasked(mask, sampling_rate) ==
    LET nh == (mask.height + sampling_rate - 1) \div sampling_rate
        nw == (mask.width + sampling_rate - 1) \div sampling_rate
        sample == [n \in 1..(nh * nw) |->
                      <<((n - 1) % nh) * sampling_rate,
                        ((n - 1) \div nh) * sampling_rate>>]
    IN  [s_x |-> [i \in 1..Len(sample) |-> sample[i][1]],
         s_y |-> [i \in 1..Len(sample) |-> sample[i][2]],
         trilist |-> LatticeTrilist(sample, sampling_rate)]

\* mutant of sample_points_and_trilist: the columns are returned as sample_x
\* and the rows as sample_y
sample_points_and_trilist_transposed(mask, sampling_rate) ==
    LET nh == (mask.height + sampling_rate - 1) \div sampling_rate
        nw == (mask.width + sampling_rate - 1) \div sampling_rate
        grid == [n \in 1..(nh * nw) |->
                    <<((n - 1) % nh) * sampling_rate,
                      ((n - 1) \div nh) * sampling_rate>>]
        sampler_in_mask(q) == mask.mask[q]
        sample == SelectSeq(grid, sampler_in_mask)
    IN  [s_x |-> [i \in 1..Len(sample) |-> sample[i][2]],
         s_y |-> [i \in 1..Len(sample) |-> sample[i][1]],
         trilist |-> LatticeTrilist(sample, sampling_rate)]

\* sample_points_and_trilist(mask, sampling_rate): np.meshgrid over the rows
\* 0, rate, 2*rate, ... < height and the columns 0, rate, ... < width, filtered
\* by the mask (boolean indexing walks the columns in the outer loop and the
\* rows in the inner one), and the trilist of a TriMesh built on the samples.
sample_points_and_trilist(mask, sampling_rate) ==
    LET nh == (mask.height + sampling_rate - 1) \div sampling_rate
        nw == (mask.width + sampling_rate - 1) \div sampling_rate
        grid == [n \in 1..(nh * nw) |->
                    <<((n - 1) % nh) * sampling_rate,
                      ((n - 1) \div nh) * sampling_rate>>]
        sampler_in_mask(q) == mask.mask[q]
        sample == SelectSeq(grid, sampler_in_mask)
    IN  [s_x |-> [i \in 1..Len(sample) |-> sample[i][1]],
         s_y |-> [i \in 1..Len(sample) |-> sample[i][2]],
         trilist |-> LatticeTrilist(sample, sampling_rate)]

\* mutant of prune_trilist: the bound grows with the dead zone
prune_trilist_widening(radius, cy_unwrapped, dead_zone) ==
    LET t == cy_unwrapped.trilist
        bound == dead_zone * PI * radius
        x == [i \in 1..Len(cy_unwrapped.points) |-> cy_unwrapped.points[i][1]]
        lhs == {i \in 1..Len(x) : TENTHS * x[i] < - bound}
        rhs == {i \in 1..Len(x) : TENTHS * x[i] > bound}
        in_set(tri, s) == \E j \in 1..3 : tri[j] \in s
        keep(tri) == ~ (in_set(tri, lhs) /\ in_set(tri, rhs))
    IN  SelectSeq(t, keep)

\* mutant of prune_trilist: logical_or in place of logical_and
prune_trilist_either(radius, cy_unwrapped, dead_zone) ==
    LET t == cy_unwrapped.trilist
        bound == (TENTHS - dead_zone) * PI * radius
        x == [i \in 1..Len(cy_unwrapped.points) |-> cy_unwrapped.points[i][1]]
        lhs == {i \in 1..Len(x) : TENTHS * x[i] < - bound}
        rhs == {i \in 1..Len(x) : TENTHS * x[i] > bound}
        in_set(tri, s) == \E j \in 1..3 : tri[j] \in s
        keep(tri) == ~ (in_set(tri, lhs) \/ in_set(tri, rhs))
    IN  SelectSeq(t, keep)

\* prune_trilist(radius, cy_unwrapped, dead_zone): dead_zone in tenths, so both
\* sides of x < -bound and x > bound are multiplied by TENTHS
prune_trilist(radius, cy_unwrapped, dead_zone) ==
    LET t == cy_unwrapped.trilist
        bound == (TENTHS - dead_zone) * PI * radius
        x == [i \in 1..Len(cy_unwrapped.points) |-> cy_unwrapped.points[i][1]]
        lhs == {i \in 1..Len(x) : TENTHS * x[i] < - bound}
        rhs == {i \in 1..Len(x) : TENTHS * x[i] > bound}
        in_set(tri, s) == \E j \in 1..3 : tri[j] \in s
        keep(tri) == ~ (in_set(tri, lhs) /\ in_set(tri, rhs))
    IN  SelectSeq(t, keep)

\* FlattenInterpolator.__init__
FlattenInterpolatorInit(target, interpolator, cy_dead_zone) ==
    LET radius == OptimalRadius(target)
        f_target_3d == [i \in 1..Len(target) |-> CylindricalUnwrap(radius, target[i])]
    IN  [target |-> target, interpolator |-> interpolator,
         cy_dead_zone |-> cy_dead_zone, radius |-> radius,
         f_target_3d |-> f_target_3d,
         f_target_2d |-> [i \in 1..Len(target) |-> ExtractNDims2(f_target_3d[i])]]

\* mutant of ImageHeight: the ratio taken the other way round
ImageHeightInverted(f_target_2d, image_width) ==
    LET r_h == PointCloudRange(f_target_2d)[1]
        r_w == PointCloudRange(f_target_2d)[2]
    IN  (r_h * image_width) \div r_w

\* TriMeshCorresponder.__init__, lines 101-103: the image height.  range()
\* gives (extent along x, extent along y); the code names them r_h, r_w.
ImageHeight(f_target_2d, image_width) ==
    LET r_h == PointCloudRange(f_target_2d)[1]
        r_w == PointCloudRange(f_target_2d)[2]
    IN  (r_w * image_width) \div r_h

\* mutant of TriMeshCorresponderInit: the sampling grid is computed from the
\* landmark-constrained mask, before the dilation
TriMeshCorresponderInitUndilatedGrid(cfg) ==
    LET f_interp == FlattenInterpolatorInit(cfg.target, cfg.interpolator,
                                            cfg.cy_dead_zone)
        image_height == ImageHeight(f_interp.f_target_2d, cfg.image_width)
        r == GLRasterizer(f_interp.f_target_3d, cfg.clip_space_scale,
                          cfg.image_width, image_height)
        img_tgt_2d == [i \in 1..Len(cfg.target) |->
                          ModelToImage(r, f_interp.f_target_3d[i])]
        sample_output == ConstrainMaskToLandmarks(r.height, r.width, img_tgt_2d)
        mask == [height |-> r.height, width |-> r.width,
                 mask |-> IF cfg.mask_dilation # 0
                          THEN BinaryDilation(sample_output, cfg.mask_dilation)
                          ELSE sample_output,
                 landmarks |-> img_tgt_2d]
        s == sample_points_and_trilist([mask EXCEPT !.mask = sample_output],
                                       cfg.sampling_rate)
    IN  IF PointCloudRange(f_interp.f_target_2d)[1] = 0
        THEN Err("OverflowError")
        ELSE Ok([f_interp |-> f_interp, r |-> r, img_tgt_2d |-> img_tgt_2d,
                 mask |-> mask, sampling_rate |-> cfg.sampling_rate,
                 s_x |-> s.s_x, s_y |-> s.s_y, trilist |-> s.trilist])

\* TriMeshCorresponder.__init__.  When the flattened target has no extent in
\* x the ratio is infinite and int() of it raises.
TriMeshCorresponderInit(cfg) ==
    LET f_interp == FlattenInterpolatorInit(cfg.target, cfg.interpolator,
                                            cfg.cy_dead_zone)
        image_height == ImageHeight(f_interp.f_target_2d, cfg.image_width)
        r == GLRasterizer(f_interp.f_target_3d, cfg.clip_space_scale,
                          cfg.image_width, image_height)
        img_tgt_2d == [i \in 1..Len(cfg.target) |->
                          ModelToImage(r, f_interp.f_target_3d[i])]
        sample_output == ConstrainMaskToLandmarks(r.height, r.width, img_tgt_2d)
        mask == [height |-> r.height, width |-> r.width,
                 mask |-> IF cfg.mask_dilation # 0
                          THEN BinaryDilation(sample_output, cfg.mask_dilation)
                          ELSE sample_output,
                 landmarks |-> img_tgt_2d]
        s == sample_points_and_trilist(mask, cfg.sampling_rate)
    IN  IF PointCloudRange(f_interp.f_target_2d)[1] = 0
        THEN Err("OverflowError")
        ELSE Ok([f_interp |-> f_interp, r |-> r, img_tgt_2d |-> img_tgt_2d,
                 mask |-> mask, sampling_rate |-> cfg.sampling_rate,
                 s_x |-> s.s_x, s_y |-> s.s_y, trilist |-> s.trilist])

\* mutant of extract_trimesh: only the pixels the rasterizer covered are sampled
extract_trimesh_masked(self, shape_image) ==
    LET covered(i) == shape_image.mask[<<self.s_x[i], self.s_y[i]>>]
        idx == SelectSeq([i \in 1..Len(self.s_x) |-> i], covered)
    IN  [points |-> [k \in 1..Len(idx) |->
                        shape_image.pixels[<<self.s_x[idx[k]], self.s_y[idx[k]]>>]],
         trilist |-> self.trilist, landmarks |-> <<>>, textured |-> FALSE]

\* TriMeshCorresponder._extract_trimesh / _extract_textured_trimesh
extract_trimesh(self, shape_image) ==
    LET sampled == [i \in 1..Len(self.s_x) |->
                       shape_image.pixels[<<self.s_x[i], self.s_y[i]>>]]
    IN  [points |-> sampled, trilist |-> self.trilist, landmarks |-> <<>>,
         textured |-> FALSE]

extract_textured_trimesh(self, shape_image, rgb_image) ==
    LET sampled == [i \in 1..Len(self.s_x) |->
                       shape_image.pixels[<<self.s_x[i], self.s_y[i]>>]]
    IN  [points |-> sampled, trilist |-> self.trilist, landmarks |-> <<>>,
         textured |-> TRUE,
         tcoords |-> [i \in 1..Len(sampled) |-> ExtractNDims2(sampled[i])],
         texture |-> rgb_image]

\* ------------------------------------------------------------------------
\* menpo/correspond/flatinterp.py
\* ------------------------------------------------------------------------
\* FlattenInterp.__init__
FlattenInterpInit(target, interp) ==
    LET radius == OptimalRadius(target)
        f_tgt_3d == [i \in 1..Len(target) |-> CylindricalUnwrap(radius, target[i])]
    IN  [flattener |-> radius, interpolator |-> interp, r_tgt |-> target,
         f_tgt_3d |-> f_tgt_3d,
         f_tgt_2d |-> [i \in 1..Len(target) |-> ExtractNDims2(f_tgt_3d[i])]]

\* AlignFlattenInterp.__init__
AlignFlattenInterpInit(target, flatten_interp, edge_dead_zone) ==
    [target |-> target, fi |-> flatten_interp, edge_dead_zone |-> edge_dead_zone]

\* AFIRasterizer.__init__, lines 180-182: the image height
AFIImageHeight(f_tgt_2d, image_width) ==
    LET r_h == PointCloudRange(f_tgt_2d)[1]
        r_w == PointCloudRange(f_tgt_2d)[2]
    IN  (r_w * image_width) \div r_h

\* AFIRasterizer.__init__
AFIRasterizerInit(afi, image_width, clip_space_scale) ==
    LET image_height == AFIImageHeight(afi.fi.f_tgt_2d, image_width)
        r == GLRasterizer(afi.fi.f_tgt_3d, clip_space_scale, image_width,
                          image_height)
    IN  IF PointCloudRange(afi.fi.f_tgt_2d)[1] = 0
        THEN Err("OverflowError")
        ELSE Ok([afi |-> afi, r |-> r,
                 i_tgt_2d |-> [i \in 1..Len(afi.fi.f_tgt_3d) |->
                                  ModelToImage(r, afi.fi.f_tgt_3d[i])]])

\* ------------------------------------------------------------------------
\* The inputs: targets, construction options, meshes
\* ------------------------------------------------------------------------
TargetA == << <<-1, 1, 1>>, <<1, 1, 1>>, <<0, -1, 1>> >>
TargetB == << <<-2, 2, 2>>, <<2, 2, 2>>, <<0, -1, 2>> >>
\* two landmarks on one vertical line, on the unit cylinder
TargetLine == << <<0, 0, 1>>, <<0, 10, 1>> >>

Config(target, image_width, clip_space_scale, mask_dilation, sampling_rate, cy_dead_zone) ==
    [target |-> target, interpolator |-> "ThinPlateSplines",
     image_width |-> image_width, clip_space_scale |-> clip_space_scale,
     mask_dilation |-> mask_dilation, sampling_rate |-> sampling_rate,
     cy_dead_zone |-> cy_dead_zone]

\* mask_dilation=20 in the signature of TriMeshCorresponder.__init__
DefaultMaskDilation == 20

\* image widths 3..MaxImageWidth; clip space scale 0.9 (the default) or 1.0;
\* dilation 1 or 0; sampling rate 1 or 2; dead zone 0.1 (the default) or 0.3
Configs ==
    {Config(t, w, o[1], o[2], o[3], o[4]) :
        t \in {TargetA, TargetB, TargetLine}, w \in 3..MaxImageWidth,
        o \in {<<9, 1, 1, 1>>, <<10, 0, 2, 3>>}}
    \cup \* and a caller that leaves every option but the width at its default
    {Config(TargetB, MaxImageWidth, 9, DefaultMaskDilation, 1, 1)}

\* the vertices of a head scan, around the y axis
Head6 == << <<-1, 1, 1>>, <<1, 1, 1>>, <<0, -1, 1>>,
            <<1, 0, -1>>, <<-1, 0, -1>>, <<0, 1, -1>> >>
Head8 == Head6 \o << <<-1, -1, -3>>, <<1, -1, -3>> >>
Tris6 == << <<1, 2, 3>>, <<2, 4, 3>>, <<4, 5, 6>>, <<1, 3, 5>> >>
Tris8 == Tris6 \o << <<7, 8, 6>>, <<4, 8, 6>> >>

Meshes ==
    { \* landmarks equal to TargetA
      TriMesh(Head6, Tris6, TargetA, FALSE),
      \* a denser, textured scan whose landmarks sit further round the head
      TriMesh(Head8, Tris8, << <<-1, 1, 0>>, <<1, 1, 0>>, <<0, -1, 1>> >>, TRUE),
      \* a scan away from the target, landmarks equal to TargetB moved
      TriMesh([i \in 1..8 |-> <<Head8[i][1], Head8[i][2] + 1, Head8[i][3] + 1>>],
              Tris8, << <<-2, 3, 3>>, <<2, 3, 3>>, <<0, 0, 3>> >>, FALSE),
      \* two landmarks only
      TriMesh(Head6, Tris6, << <<-1, 1, 1>>, <<1, 1, 1>> >>, FALSE),
      \* landmarks on one vertical line
      TriMesh(Head6, Tris6, << <<0, 1, 1>>, <<0, 0, 1>>, <<0, -1, 1>> >>, TRUE),
      \* no points at all
      TriMesh(<<>>, <<>>, TargetA, FALSE) }

\* ------------------------------------------------------------------------
\* State
\* ------------------------------------------------------------------------
VARIABLES
    c,                  \* the TriMeshCorresponder instance
    a,                  \* the AFIRasterizer instance (with its afi and afi.fi)
    options,            \* the arguments both were constructed with
    env,                \* arguments and environment of a call of one of the
                        \* functions outside the pipeline (extmanager, hog,
                        \* builder), or of a function called on its own
    out,                \* what that call returned or raised
    heap,               \* the arrays of the process, by identity
    using,              \* which of the two the caller works with
    pc,                 \* where the caller / the running call is
    ncalls,             \* calls made so far
    mesh,               \* the argument of the running call
    rigid_aligned_mesh, \* local of __call__ (r_aligned_mesh in flatinterp.py)
    f_3d, f_2d, w_2d, w_3d,   \* locals of __call__ / _apply
    per_vertex_f3v,     \* the attribute array handed to the rasterizer
    images,             \* (rgb_image, shape_image) the rasterizer returned
    result,             \* what the last finished call returned or raised
    returned,           \* every value returned so far, with the mesh it was
                        \* returned for, whether a call had raised before,
                        \* and how many times that mesh had been processed
    failed_before       \* some earlier call raised

aux == <<env, out, heap>>
frame == <<mesh, rigid_aligned_mesh, f_3d, f_2d, w_2d, w_3d, per_vertex_f3v, images>>
vars == <<c, a, options, aux, using, pc, ncalls, frame, result, returned, failed_before>>

None == [none |-> TRUE]
NoResult == [kind |-> "none"]
Constructed(o) == "error" \notin DOMAIN o

Construct(res) == IF res.ok THEN res.val ELSE [error |-> res.err]

\* The caller constructs both pipelines on one target with the same options,
\* and then works with one of them.
Init ==
    /\ \E cfg \in Configs :
        /\ options = cfg
        /\ c = Construct(TriMeshCorresponderInit(cfg))
        /\ a = Construct(AFIRasterizerInit(
                    AlignFlattenInterpInit(cfg.target,
                        FlattenInterpInit(cfg.target, cfg.interpolator),
                        cfg.cy_dead_zone),
                    cfg.image_width, cfg.clip_space_scale))
    /\ using \in {"TriMeshCorresponder", "AFIRasterizer"}
    /\ env = None /\ out = None /\ heap = None
    /\ pc = "idle"
    /\ ncalls = 0
    /\ mesh = None /\ rigid_aligned_mesh = None
    /\ f_3d = None /\ f_2d = None /\ w_2d = None /\ w_3d = None
    /\ per_vertex_f3v = None /\ images = None
    /\ result = NoResult
    /\ returned = {}
    /\ failed_before = FALSE

\* the frame of a finished call is gone
DropFrame ==
    /\ mesh' = None /\ rigid_aligned_mesh' = None
    /\ f_3d' = None /\ f_2d' = None /\ w_2d' = None /\ w_3d' = None
    /\ per_vertex_f3v' = None /\ images' = None

\* mutant of Raise: the exception is caught and the call returns what it has
RaiseSwallowed(e) ==
    /\ pc' = "idle"
    /\ result' = [kind |-> "returned"]
    /\ returned' = returned \cup
            {[callee |-> using, mesh |-> mesh, value |-> [error |-> e],
              after_failure |-> failed_before, nth |-> 0]}
    /\ failed_before' = TRUE
    /\ DropFrame
    /\ UNCHANGED <<c, a, options, aux, using, ncalls>>

\* an exception leaves the call: nothing is caught anywhere in the pipeline
Raise(e) ==
    /\ pc' = "idle"
    /\ result' = [kind |-> "raised", err |-> e]
    /\ failed_before' = TRUE
    /\ DropFrame
    /\ UNCHANGED <<c, a, options, aux, using, ncalls, returned>>

Return(callee, value) ==
    /\ pc' = "idle"
    /\ result' = [kind |-> "returned"]
    /\ returned' = returned \cup
            {[callee |-> callee, mesh |-> mesh, value |-> value,
              after_failure |-> failed_before,
              nth |-> 1 + Cardinality({e \in returned :
                                          e.callee = callee /\ e.mesh = mesh})]}
    /\ DropFrame
    /\ UNCHANGED <<c, a, options, aux, using, ncalls, failed_before>>

\* ------------------------------------------------------------------------
\* TriMeshCorresponder.correspond(mesh): self.f_interp(mesh), then
\* self.generate_correspondence_mesh(w_3d, rigid_aligned_mesh)
\* ------------------------------------------------------------------------
CallCorrespond ==
    /\ pc = "idle" /\ ncalls < MaxCalls
    /\ using = "TriMeshCorresponder" /\ Constructed(c)
    /\ \E m \in Meshes : mesh' = m
    /\ pc' = "align"
    /\ ncalls' = ncalls + 1
    /\ result' = NoResult
    /\ UNCHANGED <<c, a, options, aux, using, rigid_aligned_mesh, f_3d, f_2d, w_2d, w_3d,
                   per_vertex_f3v, images, returned, failed_before>>

\* mutant of RigidAlign: the transform is applied to the caller's mesh in place
RigidAlignInPlace ==
    /\ pc = "align"
    /\ LET alignment == AlignmentSimilarity(mesh.landmarks, c.f_interp.target)
           apply(p) == SimilarityApply(alignment.val, p)
       IN  IF alignment.ok
           THEN /\ mesh' = ApplyToMesh(apply, mesh)
                /\ rigid_aligned_mesh' = mesh'
                /\ pc' = "flatten"
                /\ UNCHANGED <<c, a, options, aux, using, ncalls, f_3d, f_2d, w_2d, w_3d,
                               per_vertex_f3v, images, result, returned,
                               failed_before>>
           ELSE Raise(alignment.err)

\* mutant of RigidAlign: the alignment is fitted on as many landmarks as both
\* the mesh and the target have
RigidAlignTruncating ==
    /\ pc = "align"
    /\ LET n == IF Len(mesh.landmarks) < Len(c.f_interp.target)
                THEN Len(mesh.landmarks) ELSE Len(c.f_interp.target)
           alignment == AlignmentSimilarity(SubSeq(mesh.landmarks, 1, n),
                                            SubSeq(c.f_interp.target, 1, n))
           apply(p) == SimilarityApply(alignment.val, p)
       IN  /\ rigid_aligned_mesh' = ApplyToMesh(apply, mesh)
           /\ pc' = "flatten"
           /\ UNCHANGED <<c, a, options, aux, using, ncalls, mesh, f_3d, f_2d, w_2d, w_3d,
                          per_vertex_f3v, images, result, returned,
                          failed_before>>

\* 1. Rigidly align the new mesh to the target
RigidAlign ==
    /\ pc = "align"
    /\ LET alignment == AlignmentSimilarity(mesh.landmarks, c.f_interp.target)
           apply(p) == SimilarityApply(alignment.val, p)
       IN  IF alignment.ok
           THEN /\ rigid_aligned_mesh' = ApplyToMesh(apply, mesh)
                /\ pc' = "flatten"
                /\ UNCHANGED <<c, a, options, aux, using, ncalls, mesh, f_3d, f_2d, w_2d, w_3d,
                               per_vertex_f3v, images, result, returned,
                               failed_before>>
           ELSE Raise(alignment.err)

\* mutant of Flatten: the cylinder is fitted again on every mesh and kept
FlattenRefitting ==
    /\ pc = "flatten"
    /\ LET unwrap(p) == CylindricalUnwrap(c.f_interp.radius, p)
           flat == ApplyToMesh(unwrap, rigid_aligned_mesh)
       IN  /\ f_3d' = flat
           /\ f_2d' = ApplyToMesh(ExtractNDims2, flat)
    /\ c' = IF rigid_aligned_mesh.points = <<>> THEN c
            ELSE [c EXCEPT !.f_interp.radius =
                               OptimalRadius(rigid_aligned_mesh.points)]
    /\ pc' = "warp"
    /\ UNCHANGED <<a, options, aux, using, ncalls, mesh, rigid_aligned_mesh, w_2d, w_3d,
                   per_vertex_f3v, images, result, returned, failed_before>>

\* 2. Flatten the mesh
Flatten ==
    /\ pc = "flatten"
    /\ LET unwrap(p) == CylindricalUnwrap(c.f_interp.radius, p)
           flat == ApplyToMesh(unwrap, rigid_aligned_mesh)
       IN  /\ f_3d' = flat
           /\ f_2d' = ApplyToMesh(ExtractNDims2, flat)
    /\ pc' = "warp"
    /\ UNCHANGED <<c, a, options, aux, using, ncalls, mesh, rigid_aligned_mesh, w_2d, w_3d,
                   per_vertex_f3v, images, result, returned, failed_before>>

\* mutant of Warp: the mesh is warped onto the target's landmarks in the image,
\* not onto the flattened target
WarpToImageTarget ==
    /\ pc = "warp"
    /\ LET tps_transform == ThinPlateSplines(f_2d.landmarks, c.img_tgt_2d)
           apply(p) == TPSApply(tps_transform.val, p)
       IN  IF tps_transform.ok
           THEN /\ w_2d' = ApplyToMesh(apply, f_2d)
                /\ pc' = "append"
                /\ UNCHANGED <<c, a, options, aux, using, ncalls, mesh, rigid_aligned_mesh, f_3d, f_2d,
                               w_3d, per_vertex_f3v, images, result, returned,
                               failed_before>>
           ELSE Raise(tps_transform.err)

\* mutant of Warp: the interpolator is built with its two arguments exchanged
WarpFromTarget ==
    /\ pc = "warp"
    /\ LET tps_transform == ThinPlateSplines(c.f_interp.f_target_2d, f_2d.landmarks)
           apply(p) == TPSApply(tps_transform.val, p)
       IN  IF tps_transform.ok
           THEN /\ w_2d' = ApplyToMesh(apply, f_2d)
                /\ pc' = "append"
                /\ UNCHANGED <<c, a, options, aux, using, ncalls, mesh, rigid_aligned_mesh, f_3d, f_2d,
                               w_3d, per_vertex_f3v, images, result, returned,
                               failed_before>>
           ELSE Raise(tps_transform.err)

\* 3. Warp the 2D flattened mesh onto the flattened target
Warp ==
    /\ pc = "warp"
    /\ LET tps_transform == ThinPlateSplines(f_2d.landmarks, c.f_interp.f_target_2d)
           apply(p) == TPSApply(tps_transform.val, p)
       IN  IF tps_transform.ok
           THEN /\ w_2d' = ApplyToMesh(apply, f_2d)
                /\ pc' = "append"
                /\ UNCHANGED <<c, a, options, aux, using, ncalls, mesh, rigid_aligned_mesh, f_3d, f_2d,
                               w_3d, per_vertex_f3v, images, result, returned,
                               failed_before>>
           ELSE Raise(tps_transform.err)

\* mutant of ReattachDepth: the third column is appended and never filled in
ReattachDepthUnassigned(w2d, f3d) ==
    ApplyToMesh(AppendNDims1, w2d)

\* 4. Append the Z dim and set it to what it was in the flattened case
ReattachDepth(w2d, f3d) ==
    LET appended == ApplyToMesh(AppendNDims1, w2d)
    IN  [appended EXCEPT !.points =
            [i \in 1..Len(appended.points) |->
                <<appended.points[i][1], appended.points[i][2], f3d.points[i][3]>>]]

\* mutant of AppendDepth: the mesh goes to the rasterizer as soon as it has its
\* depth back, the seam still connected
AppendDepthThenRasterize ==
    /\ pc = "append"
    /\ w_3d' = ReattachDepth(w_2d, f_3d)
    /\ pc' = "rasterize"
    /\ UNCHANGED <<c, a, options, aux, using, ncalls, mesh, rigid_aligned_mesh, f_3d, f_2d, w_2d,
                   per_vertex_f3v, images, result, returned, failed_before>>

AppendDepth ==
    /\ pc = "append"
    /\ w_3d' = ReattachDepth(w_2d, f_3d)
    /\ pc' = "prune"
    /\ UNCHANGED <<c, a, options, aux, using, ncalls, mesh, rigid_aligned_mesh, f_3d, f_2d, w_2d,
                   per_vertex_f3v, images, result, returned, failed_before>>

\* mutant of Prune: the points no kept triangle uses are dropped and the
\* triangles renumbered
PruneCompacting ==
    /\ pc = "prune"
    /\ LET kept == prune_trilist(c.f_interp.radius, w_3d, c.f_interp.cy_dead_zone)
           used(i) == \E n \in 1..Len(kept) : i \in Range(kept[n])
           idx == SelectSeq([i \in 1..Len(w_3d.points) |-> i], used)
           renumber(i) == CHOOSE k \in 1..Len(idx) : idx[k] = i
       IN  w_3d' = [w_3d EXCEPT
                       !.points = [k \in 1..Len(idx) |-> w_3d.points[idx[k]]],
                       !.trilist = [n \in 1..Len(kept) |->
                                       <<renumber(kept[n][1]), renumber(kept[n][2]),
                                         renumber(kept[n][3])>>]]
    /\ pc' = "rasterize"
    /\ UNCHANGED <<c, a, options, aux, using, ncalls, mesh, rigid_aligned_mesh, f_3d, f_2d, w_2d,
                   per_vertex_f3v, images, result, returned, failed_before>>

\* 5. Break any connections at the back of the cylinder
Prune ==
    /\ pc = "prune"
    /\ w_3d' = [w_3d EXCEPT !.trilist =
                   prune_trilist(c.f_interp.radius, w_3d, c.f_interp.cy_dead_zone)]
    /\ pc' = "rasterize"
    /\ UNCHANGED <<c, a, options, aux, using, ncalls, mesh, rigid_aligned_mesh, f_3d, f_2d, w_2d,
                   per_vertex_f3v, images, result, returned, failed_before>>

\* generate_correspondence_mesh(f_interp_mesh, mesh), lines 182-183: the call of
\* the rasterizer service, which may fail
\* line 292: what FlattenInterpolator.__call__ returns
FlattenInterpolatorReturn == <<w_3d, rigid_aligned_mesh>>

\* mutant of RasterizerArguments: the two values of the tuple taken in the
\* order AlignFlattenInterp returns them
RasterizerArgumentsSwapped(ret) ==
    LET f_interp_mesh == ret[2]
        mesh_ == ret[1]
    IN  [mesh |-> f_interp_mesh, per_vertex_f3v |-> mesh_.points]

\* lines 161-165, 182-183: correspond unpacks that tuple into the parameters
\* (f_interp_mesh, mesh) of generate_correspondence_mesh, which rasterizes
\* f_interp_mesh with per_vertex_f3v = mesh.points
RasterizerArguments(ret) ==
    LET f_interp_mesh == ret[1]
        mesh_ == ret[2]
    IN  [mesh |-> f_interp_mesh, per_vertex_f3v |-> mesh_.points]

Rasterize ==
    /\ pc = "rasterize"
    /\ \E service_fails \in BOOLEAN :
        LET args == RasterizerArguments(FlattenInterpolatorReturn)
            got == IF service_fails THEN Err("RasterizerError")
                   ELSE RasterizeMeshWithF3vInterpolant(c.r, args.mesh,
                                                        args.per_vertex_f3v)
        IN  IF got.ok
            THEN /\ per_vertex_f3v' = args.per_vertex_f3v
                 /\ images' = got.val
                 /\ pc' = "extract"
                 /\ UNCHANGED <<c, a, options, aux, using, ncalls, mesh, rigid_aligned_mesh, f_3d, f_2d,
                                w_2d, w_3d, result, returned, failed_before>>
            ELSE Raise(got.err)

\* mutant of CorrespondenceMesh: the texture is dropped, every mesh is
\* resampled as a plain TriMesh
CorrespondenceMeshPlain(self, aligned, imgs) ==
    [extract_trimesh(self, imgs.shape_image) EXCEPT !.landmarks = aligned.landmarks]

\* generate_correspondence_mesh, lines 186-191: resample, attach the landmarks
\* of `mesh` (the second value f_interp returned), return
CorrespondenceMesh(self, aligned, imgs) ==
    LET tm == IF aligned.textured
              THEN extract_textured_trimesh(self, imgs.shape_image, imgs.rgb_image)
              ELSE extract_trimesh(self, imgs.shape_image)
    IN  [tm EXCEPT !.landmarks = aligned.landmarks]

\* mutant of Extract: the landmarks are taken from the warped mesh, the first
\* value f_interp returned
ExtractFromWarped ==
    /\ pc = "extract"
    /\ Return("correspond",
              [tm |-> [CorrespondenceMesh(c, rigid_aligned_mesh, images)
                          EXCEPT !.landmarks = w_3d.landmarks],
               rgb_image |-> images.rgb_image,
               shape_image |-> images.shape_image])

\* mutant of Extract: the mask of the shape image replaces the stored mask
ExtractKeepingMask ==
    /\ pc = "extract"
    /\ pc' = "idle"
    /\ result' = [kind |-> "returned"]
    /\ returned' = returned \cup
            {[callee |-> "correspond", mesh |-> mesh,
              value |-> [tm |-> CorrespondenceMesh(c, rigid_aligned_mesh, images),
                         rgb_image |-> images.rgb_image,
                         shape_image |-> images.shape_image],
              after_failure |-> failed_before,
              nth |-> 1 + Cardinality({e \in returned :
                            e.callee = "correspond" /\ e.mesh = mesh})]}
    /\ c' = [c EXCEPT !.mask.mask = images.shape_image.mask]
    /\ DropFrame
    /\ UNCHANGED <<a, options, aux, using, ncalls, failed_before>>

Extract ==
    /\ pc = "extract"
    /\ Return("correspond",
              [tm |-> CorrespondenceMesh(c, rigid_aligned_mesh, images),
               rgb_image |-> images.rgb_image,
               shape_image |-> images.shape_image])

\* ------------------------------------------------------------------------
\* AFIRasterizer.__call__(mesh): self.afi(mesh), then the rasterizer
\* ------------------------------------------------------------------------
CallAFI ==
    /\ pc = "idle" /\ ncalls < MaxCalls
    /\ using = "AFIRasterizer" /\ Constructed(a)
    /\ \E m \in Meshes : mesh' = m
    /\ pc' = "afi_align"
    /\ ncalls' = ncalls + 1
    /\ result' = NoResult
    /\ UNCHANGED <<c, a, options, aux, using, rigid_aligned_mesh, f_3d, f_2d, w_2d, w_3d,
                   per_vertex_f3v, images, returned, failed_before>>

\* AlignFlattenInterp.__call__, lines 134-135
AFIAlign ==
    /\ pc = "afi_align"
    /\ LET alignment == AlignmentSimilarity(mesh.landmarks, a.afi.target)
           apply(p) == SimilarityApply(alignment.val, p)
       IN  IF alignment.ok
           THEN /\ rigid_aligned_mesh' = ApplyToMesh(apply, mesh)
                /\ pc' = "afi_apply"
                /\ UNCHANGED <<c, a, options, aux, using, ncalls, mesh, f_3d, f_2d, w_2d, w_3d,
                               per_vertex_f3v, images, result, returned,
                               failed_before>>
           ELSE Raise(alignment.err)

\* AlignFlattenInterp.__call__, line 137: self.fi.apply(r_aligned_mesh), i.e.
\* FlattenInterp._apply; the pruning of line 140 is commented out
AFIApply ==
    /\ pc = "afi_apply"
    /\ LET unwrap(p) == CylindricalUnwrap(a.afi.fi.flattener, p)
           flat3 == ApplyToMesh(unwrap, rigid_aligned_mesh)
           flat2 == ApplyToMesh(ExtractNDims2, flat3)
           interp == ThinPlateSplines(flat2.landmarks, a.afi.fi.f_tgt_2d)
           apply(p) == TPSApply(interp.val, p)
           warped == ApplyToMesh(apply, flat2)
       IN  IF interp.ok
           THEN /\ f_3d' = flat3
                /\ f_2d' = flat2
                /\ w_2d' = warped
                /\ w_3d' = ReattachDepth(warped, flat3)
                /\ pc' = "afi_rasterize"
                /\ UNCHANGED <<c, a, options, aux, using, ncalls, mesh, rigid_aligned_mesh,
                               per_vertex_f3v, images, result, returned,
                               failed_before>>
           ELSE Raise(interp.err)

\* AFIRasterizer.__call__, lines 211-212
\* line 142: what AlignFlattenInterp.__call__ returns
AlignFlattenInterpReturn == <<rigid_aligned_mesh, w_3d>>

\* lines 210-212: r_mesh, afi_mesh = self.afi(mesh); the rasterizer gets
\* afi_mesh with per_vertex_f3v = r_mesh.points
AFIRasterizerArguments(ret) ==
    LET r_mesh == ret[1]
        afi_mesh == ret[2]
    IN  [mesh |-> afi_mesh, per_vertex_f3v |-> r_mesh.points]

AFIRasterize ==
    /\ pc = "afi_rasterize"
    /\ \E service_fails \in BOOLEAN :
        LET args == AFIRasterizerArguments(AlignFlattenInterpReturn)
            got == IF service_fails THEN Err("RasterizerError")
                   ELSE RasterizeMeshWithF3vInterpolant(a.r, args.mesh,
                                                        args.per_vertex_f3v)
        IN  IF got.ok
            THEN /\ per_vertex_f3v' = args.per_vertex_f3v
                 /\ images' = got.val
                 /\ pc' = "afi_return"
                 /\ UNCHANGED <<c, a, options, aux, using, ncalls, mesh, rigid_aligned_mesh, f_3d, f_2d,
                                w_2d, w_3d, result, returned, failed_before>>
            ELSE Raise(got.err)

AFIReturn ==
    /\ pc = "afi_return"
    /\ Return("afi", [rgb_image |-> images.rgb_image,
                      shape_image |-> images.shape_image])

Next ==
    \/ CallCorrespond \/ RigidAlign \/ Flatten \/ Warp \/ AppendDepth \/ Prune
    \/ Rasterize \/ Extract
    \/ CallAFI \/ AFIAlign \/ AFIApply \/ AFIRasterize \/ AFIReturn

Spec == Init /\ [][Next]_vars

\* ------------------------------------------------------------------------
\* extmanager.py (and the extension declarations of setup.py)
\* ------------------------------------------------------------------------
\* A path is its components and its extension: op.splitext(p) is
\* (Stem(p), p.ext), and path.replace('/', '.') of a stem is the dotted name.
Path(components, ext) == [components |-> components, ext |-> ext]
DottedName(components) == [dotted |-> components]

\* a dict: a function on its keys; d[k] = v, and d.get(k, default)
EmptyDict == [k \in {} |-> None]
DictSet(d, k, v) == [x \in DOMAIN d \cup {k} |-> IF x = k THEN v ELSE d[x]]
DictGet(d, k, default) == IF k \in DOMAIN d THEN d[k] ELSE default

\* distutils.extension.Extension(name, sources, language=...)
Extension(name, sources, language) ==
    [name |-> name, sources |-> sources, language |-> language]

\* newest Cython release a machine may have (0: Cython is not installed)
MaxCythonVersion == 2

\* mutant of is_cython_installed: any installed Cython will do
is_cython_installed_any_version(cython_version, min_version) ==
    cython_version # 0

\* is_cython_installed(min_version), on a machine with the given Cython;
\* min_version 0 stands for min_version=None
is_cython_installed(cython_version, min_version) ==
    IF cython_version = 0 THEN FALSE
    ELSE IF min_version # 0 THEN cython_version >= min_version
    ELSE TRUE

default_build_ext_factory == [cls |-> "distutils.build_ext"]
cython_build_ext_factory == [cls |-> "Cython.Distutils.build_ext"]
build_ext_with_numpy_include_dir_factory(supercls) ==
    [cls |-> "BuildExtWithNumpyIncludeDir", supercls |-> supercls]
build_ext_without_compile_factory(supercls) ==
    [cls |-> "BuildExtWithoutCompile", supercls |-> supercls]
build_ext_allowing_failure_factory(supercls) ==
    [cls |-> "BuildExtAllowingFailure", supercls |-> supercls]
s_dist_invoking_cython_factory(supercls) ==
    [cls |-> "SDistInvokingCython", supercls |-> supercls]
default_sdist == [cls |-> "distutils.sdist"]

\* CythonExtension.__init__(**e), line 97 included: whatever `sources` is,
\* self.sources is the empty list
CythonExtension(e) ==
    [pyx_path |-> e.pyx_path,
     language |-> DictGet(e, "language", "c++"),
     depends |-> DictGet(e, "depends", <<>>),
     sources |-> IF "sources" \in DOMAIN e THEN <<>> ELSE <<>>]

name(self) == DottedName(self.pyx_path.components)
native_suffix(self) == IF self.language = "c++" THEN "cpp" ELSE "c"
cythonized_path(self) == Path(self.pyx_path.components, native_suffix(self))
has_been_cythonized(self, files) == cythonized_path(self) \in files

as_already_cythonized_extension(self) ==
    Extension(name(self), <<cythonized_path(self)>> \o self.sources, self.language)

as_cythonizable_extension(self) ==
    Extension(name(self), self.sources, self.language)

\* check_extensions_are_valid: the extensions whose pyx file is missing
missing_exts(extensions, files) ==
    SelectSeq(extensions, LAMBDA e : e.pyx_path \notin files)

extensions_needing_cython(extensions, files) ==
    SelectSeq(extensions, LAMBDA e : ~ has_been_cythonized(e, files))

\* ext_setup_kwargs(extension_specs, cmdclass, min_cython_version,
\* failure_permitted), run where the files `files` exist and Cython
\* `cython_version` is installed
ext_setup_kwargs(extension_specs, cmdclass_arg, min_cython_version, failure_permitted, files, cython_version) ==
    LET cmdclass0 == IF cmdclass_arg # None THEN cmdclass_arg ELSE EmptyDict
        sdist_base_class == DictGet(cmdclass0, "sdist", default_sdist)
        extensions == [i \in 1..Len(extension_specs) |->
                          CythonExtension(extension_specs[i])]
        cython_installed == is_cython_installed(cython_version, min_cython_version)
        ext_needing_cython == extensions_needing_cython(extensions, files)
        cython_required == Len(ext_needing_cython) # 0
        cythonize_and_stop_build_ext ==
            build_ext_without_compile_factory(
                build_ext_with_numpy_include_dir_factory(cython_build_ext_factory))
        cmdclass1 ==
            IF cython_required
            THEN DictSet(DictSet(cmdclass0, "cython", cythonize_and_stop_build_ext),
                         "sdist", s_dist_invoking_cython_factory(sdist_base_class))
            ELSE cmdclass0
        ext_modules ==
            IF cython_required
            THEN [i \in 1..Len(ext_needing_cython) |->
                     as_cythonizable_extension(ext_needing_cython[i])]
            ELSE [i \in 1..Len(extensions) |->
                     as_already_cythonized_extension(extensions[i])]
        build_ext0 == build_ext_with_numpy_include_dir_factory(default_build_ext_factory)
        build_ext == IF failure_permitted
                     THEN build_ext_allowing_failure_factory(build_ext0)
                     ELSE build_ext0
    IN  IF Len(missing_exts(extensions, files)) > 0 THEN Err("ValueError")
        ELSE IF cython_required /\ ~ cython_installed THEN Err("ValueError")
        ELSE Ok([cmdclass |-> DictSet(cmdclass1, "build_ext", build_ext),
                 ext_modules |-> ext_modules])

\* EXTENSION_SPECS of setup.py, lines 44-61: an extension that is its pyx file
\* only, and one with C++ sources of its own
GradientPyx == Path(<<"menpo", "feature", "gradient">>, "pyx")
WindowIteratorPyx == Path(<<"menpo", "feature", "windowiterator">>, "pyx")
WindowIteratorSources ==
    <<Path(<<"menpo", "feature", "cpp", "ImageWindowIterator">>, "cpp"),
      Path(<<"menpo", "feature", "cpp", "HOG">>, "cpp")>>
EXTENSION_SPECS ==
    <<[pyx_path |-> GradientPyx],
      [pyx_path |-> WindowIteratorPyx,
       depends |-> <<Path(<<"menpo", "feature", "cpp", "HOG">>, "h")>>,
       sources |-> WindowIteratorSources]>>

\* versioneer.get_cmdclass() of setup.py, line 70
VERSIONEER_CMDCLASS ==
    [k \in {"version", "sdist"} |-> [cls |-> "versioneer", cmd |-> k]]

\* the files that may be in the source tree: the pyx files and what Cython
\* makes of them
TreeFiles ==
    {GradientPyx, WindowIteratorPyx,
     Path(GradientPyx.components, "cpp"), Path(WindowIteratorPyx.components, "cpp")}

ExtInputs ==
    [fn : {"ext_setup_kwargs"},
     extension_specs : {EXTENSION_SPECS, SubSeq(EXTENSION_SPECS, 1, 1),
                        SubSeq(EXTENSION_SPECS, 2, 2)},
     cmdclass : {None, VERSIONEER_CMDCLASS},
     min_cython_version : 0..MaxCythonVersion,
     failure_permitted : BOOLEAN,
     files : SUBSET TreeFiles,
     cython_version : 0..MaxCythonVersion]

\* no pipeline object exists while a function outside the pipeline runs
NoPipeline ==
    /\ c = None /\ a = None /\ options = None /\ using = "none"
    /\ pc = "idle" /\ ncalls = 0
    /\ mesh = None /\ rigid_aligned_mesh = None
    /\ f_3d = None /\ f_2d = None /\ w_2d = None /\ w_3d = None
    /\ per_vertex_f3v = None /\ images = None
    /\ result = NoResult /\ returned = {} /\ failed_before = FALSE

pipeline == <<c, a, options, using, pc, ncalls, frame, result, returned, failed_before>>

InitExt ==
    /\ NoPipeline
    /\ env \in ExtInputs
    /\ out = None /\ heap = None

\* setup.py calls ext_setup_kwargs once
ExtSetupKwargs ==
    /\ env # None /\ env.fn = "ext_setup_kwargs" /\ out = None
    /\ out' = ext_setup_kwargs(env.extension_specs, env.cmdclass,
                               env.min_cython_version, env.failure_permitted,
                               env.files, env.cython_version)
    /\ UNCHANGED <<pipeline, env, heap>>

NextExt == ExtSetupKwargs

SpecExt == InitExt /\ [][NextExt]_vars

\* ------------------------------------------------------------------------
\* menpo/feature/optional/cython.py: hog
\* ------------------------------------------------------------------------
\* largest block_size (in cells) and largest window size (in window units) a
\* caller passes
MaxBlockSize == 4
MaxWindow == 3

\* np.uint32(v) of a whole number within 0 .. 2^32 - 1; the sizes of this
\* model stay below MaxWindow * MaxBlockSize * 3, far from the wrap
Uint32(v) == CHOOSE u \in 0..v : u = v

\* hog(pixels, ...), lines 139-173: the checks of the options, in their order.
\* shape is pixels.shape after the axes are rolled: (height, width, channels).
hog_check(shape, o) ==
    LET in_blocks == o.window_unit = "blocks"
        window_height_temp == IF in_blocks
                              THEN o.window_height * o.block_size * o.cell_size
                              ELSE o.window_height
        window_width_temp == IF in_blocks
                             THEN o.window_width * o.block_size * o.cell_size
                             ELSE o.window_width
    IN  IF o.mode \notin {"dense", "sparse"} THEN Err("ValueError: mode")
        ELSE IF o.algorithm \notin {"dalaltriggs", "zhuramanan"}
             THEN Err("ValueError: algorithm")
        ELSE IF o.num_bins <= 0 THEN Err("ValueError: num_bins")
        ELSE IF o.cell_size <= 0 THEN Err("ValueError: cell_size")
        ELSE IF o.block_size <= 0 THEN Err("ValueError: block_size")
        ELSE IF o.mode # "dense" THEN Ok(o)
        ELSE IF o.window_unit \notin {"pixels", "blocks"}
             THEN Err("ValueError: window_unit")
        ELSE IF \/ window_height_temp < o.block_size * o.cell_size
                \/ window_height_temp > shape[1]
             THEN Err("ValueError: window height")
        ELSE IF \/ window_width_temp < o.block_size * o.cell_size
                \/ window_width_temp > shape[2]
             THEN Err("ValueError: window width")
        ELSE IF o.window_step_horizontal <= 0 THEN Err("ValueError: horizontal step")
        ELSE IF o.window_step_vertical <= 0 THEN Err("ValueError: vertical step")
        ELSE IF o.window_step_unit \notin {"pixels", "cells"}
             THEN Err("ValueError: window_step_unit")
        ELSE Ok(o)

\* WindowIterator(pixels, window_height, window_width, window_step_horizontal,
\* window_step_vertical, padding): the arguments it is constructed with
WindowIterator(shape, window_height, window_width, step_horizontal, step_vertical, padding) ==
    [shape |-> shape, window_height |-> window_height,
     window_width |-> window_width, window_step_horizontal |-> step_horizontal,
     window_step_vertical |-> step_vertical, padding |-> padding]

\* hog, lines 180-219: the iterator of the dense and of the sparse case
hog_iterator(shape, o) ==
    LET block_in_pixels == IF o.algorithm = "dalaltriggs"
                           THEN o.cell_size * o.block_size
                           ELSE 3 * o.cell_size
        in_blocks == o.window_unit = "blocks"
        in_cells == o.window_step_unit = "cells"
        window_size == block_in_pixels
        step == o.cell_size
    IN  IF o.mode = "dense"
        THEN WindowIterator(shape,
                IF in_blocks THEN Uint32(o.window_height * block_in_pixels)
                ELSE o.window_height,
                IF in_blocks THEN Uint32(o.window_width * block_in_pixels)
                ELSE o.window_width,
                IF in_cells THEN Uint32(o.window_step_horizontal * o.cell_size)
                ELSE o.window_step_horizontal,
                IF in_cells THEN Uint32(o.window_step_vertical * o.cell_size)
                ELSE o.window_step_vertical,
                o.padding)
        ELSE WindowIterator(shape, window_size, window_size, step, step, FALSE)

\* hog: the checks, then the iterator and the algorithm number it is run with
hog(shape, o) ==
    LET checked == hog_check(shape, o)
    IN  IF ~ checked.ok THEN checked
        ELSE Ok([iterator |-> hog_iterator(shape, o),
                 algorithm |-> IF o.algorithm = "dalaltriggs" THEN 1 ELSE 2])

HogInputs ==
    [fn : {"hog"},
     shape : {<<4, 6, 1>>, <<6, 6, 3>>},
     mode : {"dense", "sparse"},
     algorithm : {"dalaltriggs", "zhuramanan"},
     num_bins : {9}, cell_size : 1..2, block_size : 1..MaxBlockSize,
     window_height : 0..MaxWindow, window_width : 1..2,
     window_unit : {"blocks", "pixels"},
     window_step_vertical : {1}, window_step_horizontal : {1},
     window_step_unit : {"pixels", "cells"}, padding : {TRUE}]

InitHog ==
    /\ NoPipeline
    /\ env \in HogInputs
    /\ out = None /\ heap = None

Hog ==
    /\ env # None /\ env.fn = "hog" /\ out = None
    /\ out' = hog(env.shape, env)
    /\ UNCHANGED <<pipeline, env, heap>>

NextHog == Hog

SpecHog == InitHog /\ [][NextHog]_vars

\* ------------------------------------------------------------------------
\* menpo/fitmultilevel/builder.py: the pyramid of feature images
\* ------------------------------------------------------------------------
\* largest number of pyramid levels asked for
MaxLevels == 3

\* Python values, tagged by their type: an argument is whatever the caller
\* passed in its position
PyInt(n) == [int |-> n]
PyBool(b) == [bool |-> b]
PyList(s) == [list |-> s]
PyFunction(f) == [function |-> f]
PyImage(i) == [image |-> i, level |-> 0, features |-> <<>>]

\* the truth value of a Python value in an if
Truthy(x) ==
    IF "bool" \in DOMAIN x THEN x.bool
    ELSE IF "int" \in DOMAIN x THEN x.int # 0
    ELSE IF "list" \in DOMAIN x THEN Len(x.list) > 0
    ELSE TRUE

\* x[0]
Subscript0(x) ==
    IF "list" \notin DOMAIN x THEN Err("TypeError")
    ELSE IF Len(x.list) = 0 THEN Err("IndexError")
    ELSE Ok(x.list[1])

\* feature(image): the feature image, which remembers what was applied
CallFeature(feature, image) ==
    IF "function" \notin DOMAIN feature THEN Err("TypeError")
    ELSE IF "image" \notin DOMAIN image THEN Err("AttributeError")
    ELSE Ok([image EXCEPT !.features = Append(@, feature.function)])

\* image.gaussian_pyramid(n_levels=n_levels, downscale=downscale): the levels
\* it yields, the image itself first
gaussian_pyramid(image, n_levels, downscale) ==
    IF "image" \notin DOMAIN image THEN Err("AttributeError")
    ELSE IF "int" \notin DOMAIN n_levels \/ "int" \notin DOMAIN downscale
         THEN Err("TypeError")
    ELSE Ok([i \in 1..n_levels.int |-> [image EXCEPT !.level = i - 1]])

\* feature_images(images, features), consumed: zip stops with the shorter of
\* the two
feature_images(imgs, features) ==
    IF "list" \notin DOMAIN features THEN Err("TypeError")
    ELSE LET n == IF Len(features.list) <= Len(imgs)
                  THEN Len(features.list) ELSE Len(imgs)
             yielded == [i \in 1..n |-> CallFeature(features.list[i], imgs[i])]
         IN  IF \E i \in 1..n : ~ yielded[i].ok
             THEN yielded[CHOOSE i \in 1..n : ~ yielded[i].ok /\ \A j \in 1..(i - 1) : yielded[j].ok]
             ELSE Ok([i \in 1..n |-> yielded[i].val])

\* pyramid_of_feature_images(n_levels, downscale, pyramid_on_features,
\* features, image), its generator consumed
pyramid_of_feature_images(n_levels, downscale, pyramid_on_features, features, image) ==
    IF Truthy(pyramid_on_features)
    THEN LET feature == Subscript0(features)
             feature_image == CallFeature(feature.val, image)
         IN  IF ~ feature.ok THEN feature
             ELSE IF ~ feature_image.ok THEN feature_image
             ELSE gaussian_pyramid(feature_image.val, n_levels, downscale)
    ELSE LET pyramid_generator == gaussian_pyramid(image, n_levels, downscale)
         IN  IF ~ pyramid_generator.ok THEN pyramid_generator
             ELSE feature_images(pyramid_generator.val, features)

\* create_pyramid(images, n_levels, downscale, pyramid_on_features, features):
\* each image is passed FIRST, so the callee's n_levels is the image, its
\* downscale is n_levels, its pyramid_on_features is downscale, its features
\* is pyramid_on_features and its image is features
create_pyramid(imgs, n_levels, downscale, pyramid_on_features, features) ==
    LET pyramids == [k \in 1..Len(imgs) |->
                        pyramid_of_feature_images(imgs[k], n_levels, downscale,
                                                  pyramid_on_features, features)]
    IN  IF \E k \in 1..Len(imgs) : ~ pyramids[k].ok
        THEN pyramids[CHOOSE k \in 1..Len(imgs) : ~ pyramids[k].ok /\ \A j \in 1..(k - 1) : pyramids[j].ok]
        ELSE Ok([k \in 1..Len(imgs) |-> pyramids[k].val])

PyramidInputs ==
    [fn : {"create_pyramid", "pyramid_of_feature_images"},
     images : {<<1>>, <<2>>, <<1, 2>>},
     n_levels : 1..MaxLevels,
     downscale : {2, 3},
     pyramid_on_features : BOOLEAN,
     features : {<<"igo">>, <<"hog">>, <<"igo", "igo", "igo">>}]

InitPyramid ==
    /\ NoPipeline
    /\ env \in PyramidInputs
    /\ out = None /\ heap = None

\* one image's pyramid, as pyramid_of_warped_feature_images asks for it
PyramidOfFeatureImages ==
    /\ env # None /\ env.fn = "pyramid_of_feature_images" /\ out = None
    /\ LET made == pyramid_of_feature_images(PyInt(env.n_levels), PyInt(env.downscale),
                       PyBool(env.pyramid_on_features),
                       PyList([i \in 1..Len(env.features) |-> PyFunction(env.features[i])]),
                       PyImage(env.images[1]))
       IN  out' = IF made.ok THEN Ok(<<made.val>>) ELSE made
    /\ UNCHANGED <<pipeline, env, heap>>

CreatePyramid ==
    /\ env # None /\ env.fn = "create_pyramid" /\ out = None
    /\ out' = create_pyramid([k \in 1..Len(env.images) |-> PyImage(env.images[k])],
                  PyInt(env.n_levels), PyInt(env.downscale),
                  PyBool(env.pyramid_on_features),
                  PyList([i \in 1..Len(env.features) |-> PyFunction(env.features[i])]))
    /\ UNCHANGED <<pipeline, env, heap>>

NextPyramid == PyramidOfFeatureImages \/ CreatePyramid

SpecPyramid == InitPyramid /\ [][NextPyramid]_vars

\* ------------------------------------------------------------------------
\* Who owns the triangle arrays: the corresponder's self.trilist and the
\* trilists of the meshes it hands out, as arrays of a heap
\* ------------------------------------------------------------------------
\* largest number of meshes a caller keeps at once
MaxMeshes == 3

\* ndarray.copy(): a new array with the same content; its id is the last one
ArrayCopy(arrays, ref) == Append(arrays, arrays[ref])

\* TriMesh(points, trilist=ref): a mesh owns its triangle array, so the
\* constructor stores a copy of what it is given
TriMeshOwning(arrays, ref) ==
    [arrays |-> ArrayCopy(arrays, ref), trilist |-> Len(arrays) + 1]

\* mutant of extract_trimesh_ref: the mesh is handed the corresponder's array
extract_trimesh_aliasing(arrays, self_trilist) ==
    [arrays |-> arrays, trilist |-> self_trilist]

\* _extract_trimesh / _extract_textured_trimesh, as far as the triangle array
\* goes: TriMesh(sampled, trilist=self.trilist)
extract_trimesh_ref(arrays, self_trilist) ==
    TriMeshOwning(arrays, self_trilist)

\* the triangulations the constructor computes for the configurations
OwnershipInputs ==
    {[fn |-> "ownership", trilist |-> TriMeshCorresponderInit(cfg).val.trilist] :
        cfg \in {g \in Configs : TriMeshCorresponderInit(g).ok}}

\* sample_points_and_trilist, lines 45-46, and __init__, line 132: array 1 is
\* the trilist of the throw-away TriMesh, array 2 its copy, kept as
\* self.trilist
InitOwnership ==
    /\ NoPipeline
    /\ env \in OwnershipInputs
    /\ heap = [arrays |-> ArrayCopy(<<env.trilist>>, 1), self_trilist |-> 2]
    /\ out = <<>>

\* correspond returns one more mesh; after_write remembers whether the caller
\* had modified a mesh before
OwnershipCorrespond ==
    /\ env # None /\ env.fn = "ownership" /\ Len(out) < MaxMeshes
    /\ LET tm == extract_trimesh_ref(heap.arrays, heap.self_trilist)
       IN  /\ heap' = [heap EXCEPT !.arrays = tm.arrays]
           /\ out' = Append(out,
                  [trilist |-> tm.trilist, written |-> FALSE,
                   after_write |-> \E k \in 1..Len(out) : out[k].written])
    /\ UNCHANGED <<pipeline, env>>

\* the caller overwrites the first or the last triangle of a mesh it was given
CallerModifiesTrilist ==
    /\ env # None /\ env.fn = "ownership"
    /\ \E k \in 1..Len(out) :
        \E n \in {1, Len(heap.arrays[out[k].trilist])} :
            /\ n \in 1..Len(heap.arrays[out[k].trilist])
            /\ heap.arrays[out[k].trilist][n] # <<1, 1, 1>>
            /\ heap' = [heap EXCEPT !.arrays[out[k].trilist][n] = <<1, 1, 1>>]
            /\ out' = [out EXCEPT ![k].written = TRUE]
    /\ UNCHANGED <<pipeline, env>>

NextOwnership == OwnershipCorrespond \/ CallerModifiesTrilist

SpecOwnership == InitOwnership /\ [][NextOwnership]_vars

\* ------------------------------------------------------------------------
\* The constructors on their own, over targets of every shape and image
\* widths from 1
\* ------------------------------------------------------------------------
\* a target four times as wide as tall once flattened, and one of no height
TargetWide == << <<-2, 0, 2>>, <<2, 0, 2>>, <<0, 1, 2>> >>
TargetFlat == << <<-2, 0, 2>>, <<2, 0, 2>>, <<0, 0, 2>> >>

ConstructInputs ==
    [fn : {"TriMeshCorresponder", "AFIRasterizer"},
     cfg : {Config(t, w, o[1], o[2], o[3], o[4]) :
               t \in {TargetA, TargetB, TargetLine, TargetWide, TargetFlat},
               w \in 1..MaxImageWidth,
               o \in {<<9, 1, 1, 1>>, <<10, 0, 2, 3>>}}]

InitConstruct ==
    /\ NoPipeline
    /\ env \in ConstructInputs
    /\ out = None /\ heap = None

\* TriMeshCorresponder(target, ...)
ConstructTriMeshCorresponder ==
    /\ env # None /\ env.fn = "TriMeshCorresponder" /\ out = None
    /\ out' = TriMeshCorresponderInit(env.cfg)
    /\ UNCHANGED <<pipeline, env, heap>>

\* AFIRasterizer(AlignFlattenInterp(target, FlattenInterp(target, ...)), ...)
ConstructAFIRasterizer ==
    /\ env # None /\ env.fn = "AFIRasterizer" /\ out = None
    /\ out' = AFIRasterizerInit(
                  AlignFlattenInterpInit(env.cfg.target,
                      FlattenInterpInit(env.cfg.target, env.cfg.interpolator),
                      env.cfg.cy_dead_zone),
                  env.cfg.image_width, env.cfg.clip_space_scale)
    /\ UNCHANGED <<pipeline, env, heap>>

NextConstruct == ConstructTriMeshCorresponder \/ ConstructAFIRasterizer

SpecConstruct == InitConstruct /\ [][NextConstruct]_vars

\* ------------------------------------------------------------------------
\* prune_trilist on its own: unwrapped points around the seam, pruned once,
\* pruned again, and pruned with a second dead zone
\* ------------------------------------------------------------------------
\* largest radius of the fitted cylinder
MaxRadius == 2

\* four points at azimuths (in octants) on either side of the seam, on a
\* cylinder of the given radius, and the triangles that join them
SeamMesh(radius, azimuths) ==
    [points |-> [i \in 1..4 |-> <<azimuths[i] * radius, 0, radius>>],
     trilist |-> << <<1, 2, 3>>, <<2, 3, 4>>, <<1, 3, 4>>, <<1, 2, 4>> >>]

PruneInputs ==
    [fn : {"prune_trilist"},
     radius : 1..MaxRadius,
     azimuths : [1..4 -> {-PI, 1 - PI, PI - 1, PI}],
     dead_zone : {0, 1, 3, TENTHS},
     other_dead_zone : {0, 1, 3, TENTHS}]

InitPrune ==
    /\ NoPipeline
    /\ env \in PruneInputs
    /\ out = None /\ heap = None

PruneTrilist ==
    /\ env # None /\ env.fn = "prune_trilist" /\ out = None
    /\ LET m == SeamMesh(env.radius, env.azimuths)
           once == prune_trilist(env.radius, m, env.dead_zone)
       IN  out' = [once |-> once,
                   twice |-> prune_trilist(env.radius, [m EXCEPT !.trilist = once],
                                           env.dead_zone),
                   other |-> prune_trilist(env.radius, m, env.other_dead_zone)]
    /\ UNCHANGED <<pipeline, env, heap>>

NextPrune == PruneTrilist

SpecPrune == InitPrune /\ [][NextPrune]_vars

\* ------------------------------------------------------------------------
\* Properties
\* ------------------------------------------------------------------------
Count(s, v) == Cardinality({i \in 1..Len(s) : s[i] = v})

RECURSIVE IsSubsequence(_, _)
IsSubsequence(s, t) ==
    IF s = <<>> THEN TRUE
    ELSE IF t = <<>> THEN FALSE
    ELSE IF Head(s) = Head(t) THEN IsSubsequence(Tail(s), Tail(t))
    ELSE IsSubsequence(s, Tail(t))

\* a triangle has one vertex left of -(1-d)*pi*r and one right of (1-d)*pi*r,
\* the x coordinates being read from pts
Spans(tri, pts, radius, dead_zone) ==
    \E j, k \in 1..3 :
        /\ TENTHS * pts[tri[j]][1] < - ((TENTHS - dead_zone) * PI * radius)
        /\ TENTHS * pts[tri[k]][1] > (TENTHS - dead_zone) * PI * radius

InDeadZone(tri, pts, radius, dead_zone) ==
    \E j \in 1..3 :
        \/ TENTHS * pts[tri[j]][1] < - ((TENTHS - dead_zone) * PI * radius)
        \/ TENTHS * pts[tri[j]][1] > (TENTHS - dead_zone) * PI * radius

Corresponded == {e \in returned : e.callee = "correspond"}

\* C1: all meshes one TriMeshCorresponder returns have the same number of
\* points, the number of sampling coordinates fixed at construction, and the
\* same triangle list, the corresponder's trilist.
C1_FixedPointCountAndTrilist ==
    \A e1, e2 \in Corresponded :
        /\ Len(e1.value.tm.points) = Len(c.s_x)
        /\ Len(e1.value.tm.points) = Len(c.s_y)
        /\ e1.value.tm.trilist = c.trilist
        /\ Len(e1.value.tm.points) = Len(e2.value.tm.points)
        /\ e1.value.tm.trilist = e2.value.tm.trilist

\* two meshes of different density, one textured and one not, were returned
\* by a corresponder whose grid has triangles
C1_Witness ==
    \E e1, e2 \in Corresponded :
        /\ Len(e1.mesh.points) # Len(e2.mesh.points)
        /\ e1.mesh.textured /\ ~ e2.mesh.textured
        /\ Len(c.s_x) > 0 /\ c.trilist # <<>>

\* C2: after prune_trilist, a triangle of the mesh is gone exactly if it has a
\* vertex with x < -(1-dead_zone)*pi*radius and a vertex with
\* x > (1-dead_zone)*pi*radius in mesh.points; every other triangle is kept.
C2_PruneRemovesExactlySpanning ==
    pc = "rasterize" =>
        \A tri \in Range(w_2d.trilist) \cup Range(w_3d.trilist) :
            Count(w_3d.trilist, tri) =
                IF Spans(tri, w_3d.points, c.f_interp.radius, c.f_interp.cy_dead_zone)
                THEN 0
                ELSE Count(w_2d.trilist, tri)

\* a spanning triangle was removed while a triangle with a vertex in one dead
\* zone only was kept
C2_Witness ==
    /\ pc = "rasterize"
    /\ \E tri \in Range(w_2d.trilist) : tri \notin Range(w_3d.trilist)
    /\ \E tri \in Range(w_3d.trilist) :
          InDeadZone(tri, w_3d.points, c.f_interp.radius, c.f_interp.cy_dead_zone)

\* C3: after step 5 no triangle of the returned mesh has one vertex whose
\* cylindrically unwrapped x (the flattener's output, before the warp) is
\* < -(1-d)*pi*r and another whose unwrapped x is > (1-d)*pi*r.
C3_NoTriangleSpansUnwrappedSeam ==
    pc = "rasterize" =>
        \A tri \in Range(w_3d.trilist) :
            ~ Spans(tri, f_3d.points, c.f_interp.radius, c.f_interp.cy_dead_zone)

\* C4: seam pruning leaves the points and the landmarks of the mesh as they
\* were, and the triangles it keeps are a subsequence of the triangle list
\* (same vertex indices, same relative order).
C4_PruneChangesOnlyTrilist ==
    [][pc = "prune" =>
          /\ w_3d'.points = w_3d.points
          /\ w_3d'.landmarks = w_3d.landmarks
          /\ IsSubsequence(w_3d'.trilist, w_3d.trilist)]_vars

\* pruning removed a triangle, kept several, and left a point that no
\* triangle uses any more
C4_Witness ==
    /\ pc = "rasterize"
    /\ Len(w_3d.trilist) < Len(w_2d.trilist)
    /\ Len(w_3d.trilist) > 1
    /\ \E i \in 1..Len(w_3d.points) :
          /\ \E n \in 1..Len(w_2d.trilist) : i \in Range(w_2d.trilist[n])
          /\ \A n \in 1..Len(w_3d.trilist) : i \notin Range(w_3d.trilist[n])

\* C5: two correspond calls with the same mesh return the same value,
\* whatever was processed before or between them.
C5_SameMeshSameResult ==
    \A e1, e2 \in Corresponded : e1.mesh = e2.mesh => e1.value = e2.value

\* a mesh was returned twice, and another mesh was processed as well
C5_Witness ==
    \E e1, e2, e3 \in Corresponded :
        /\ e1.mesh = e2.mesh /\ e1.nth = 1 /\ e2.nth = 2
        /\ e3.mesh # e1.mesh
        /\ Len(e1.value.tm.points) > 0

\* C6: a call either returns its whole tuple or raises; a call that raises
\* returns nothing and leaves the precomputed state alone, and what a mesh is
\* corresponded to after a failure is what it was corresponded to before any
\* failure.
C6_FailureLeavesNoTrace ==
    /\ [][(pc # "idle" /\ pc' = "idle") =>
             /\ c' = c /\ a' = a
             /\ \/ result'.kind = "raised" /\ returned' = returned
                \/ /\ result'.kind = "returned"
                   /\ \A e \in returned' \ returned :
                         {"rgb_image", "shape_image"} \subseteq DOMAIN e.value]_vars
    /\ [](\A e1, e2 \in returned :
             (e1.callee = e2.callee /\ e1.mesh = e2.mesh
              /\ ~ e1.after_failure /\ e2.after_failure)
             => e1.value = e2.value)

\* a mesh was corresponded, then a call failed, then the mesh was
\* corresponded again
C6_Witness ==
    /\ result.kind = "returned"
    /\ \E e1, e2 \in Corresponded :
          /\ e1.mesh = e2.mesh
          /\ ~ e1.after_failure /\ e2.after_failure

\* C7: no correspond call changes what the constructor computed: target,
\* flattener and radius, flattened target, rasterizer, mask, sampling rate,
\* sampling coordinates and triangulation.
C7_ConstructionStateImmutable ==
    [][c' = c]_vars

\* a successful and a failing call are over
C7_Witness ==
    /\ using = "TriMeshCorresponder" /\ pc = "idle"
    /\ Corresponded # {} /\ failed_before

BBoxWidth(pts) == PointCloudRange(pts)[1]
BBoxHeight(pts) == PointCloudRange(pts)[2]

\* C8: image_height differs from image_width * (bbox height / bbox width) of
\* the flattened 2D target by less than one pixel (it is that number rounded
\* down), in TriMeshCorresponder and in AFIRasterizer.
C8_AspectRatio ==
    /\ Constructed(c) =>
        /\ c.r.height * BBoxWidth(c.f_interp.f_target_2d)
              <= c.r.width * BBoxHeight(c.f_interp.f_target_2d)
        /\ c.r.width * BBoxHeight(c.f_interp.f_target_2d)
              < (c.r.height + 1) * BBoxWidth(c.f_interp.f_target_2d)
    /\ Constructed(a) =>
        /\ a.r.height * BBoxWidth(a.afi.fi.f_tgt_2d)
              <= a.r.width * BBoxHeight(a.afi.fi.f_tgt_2d)
        /\ a.r.width * BBoxHeight(a.afi.fi.f_tgt_2d)
              < (a.r.height + 1) * BBoxWidth(a.afi.fi.f_tgt_2d)

\* both were constructed on a target whose ratio times the width is no integer
C8_Witness ==
    /\ Constructed(c) /\ Constructed(a)
    /\ (c.r.width * BBoxHeight(c.f_interp.f_target_2d))
          % BBoxWidth(c.f_interp.f_target_2d) # 0
    /\ (a.r.width * BBoxHeight(a.afi.fi.f_tgt_2d))
          % BBoxWidth(a.afi.fi.f_tgt_2d) # 0
    /\ BBoxHeight(c.f_interp.f_target_2d) # BBoxWidth(c.f_interp.f_target_2d)

\* C9: the depth-reattached mesh has as many points as the warped mesh; point
\* i has the warped 2D coordinates of point i and the depth of point i of the
\* flattened mesh before the warp.
C9_DepthReattached ==
    w_3d # None =>
        /\ Len(w_3d.points) = Len(w_2d.points)
        /\ Len(w_3d.points) = Len(f_3d.points)
        /\ \A i \in 1..Len(w_3d.points) :
              w_3d.points[i] = <<w_2d.points[i][1], w_2d.points[i][2],
                                 f_3d.points[i][3]>>

\* the warp moved a point, and the depths differ from point to point
C9_Witness ==
    /\ w_3d # None
    /\ \E i \in 1..Len(w_3d.points) : w_2d.points[i] # f_2d.points[i]
    /\ \E i, j \in 1..Len(w_3d.points) : w_3d.points[i][3] # w_3d.points[j][3]

AlignedPoints(m, target) ==
    [i \in 1..Len(m.points) |->
        SimilarityApply(AlignmentSimilarity(m.landmarks, target).val, m.points[i])]

\* C10: the attribute array the rasterizer was given is the point array of the
\* rigidly aligned mesh: the similarity fitted on the landmarks applied to
\* every point of the input mesh, one per vertex of the rasterized mesh, and
\* not what flattening, warping, depth reattachment or pruning made of it.
C10_AttributesAreAlignedPoints ==
    /\ pc = "extract" =>
        /\ per_vertex_f3v = AlignedPoints(mesh, c.f_interp.target)
        /\ per_vertex_f3v = rigid_aligned_mesh.points
        /\ Len(per_vertex_f3v) = Len(w_3d.points)
    /\ pc = "afi_return" =>
        /\ per_vertex_f3v = AlignedPoints(mesh, a.afi.target)
        /\ per_vertex_f3v = rigid_aligned_mesh.points
        /\ Len(per_vertex_f3v) = Len(w_3d.points)

\* the rasterizer was called on a mesh that alignment moved and the later
\* steps changed
C10_Witness ==
    /\ pc = "extract"
    /\ per_vertex_f3v # <<>>
    /\ per_vertex_f3v # mesh.points
    /\ per_vertex_f3v # w_3d.points
    /\ Len(w_3d.trilist) < Len(mesh.trilist)

\* the stages of one correspond call, in the order of the code
StageOrder ==
    <<"align", "flatten", "warp", "append", "prune", "rasterize", "extract">>

\* C11: within one correspond call the stages run once each and in the order
\* rigid alignment, flattening, warp, depth reattachment, seam pruning,
\* rasterization, resampling (a stage that raises ends the call); the mesh the
\* rasterizer is given is the seam-pruned one.
C11_StagesInOrder ==
    /\ [][using = "TriMeshCorresponder" =>
            \/ pc = "idle" /\ pc' = StageOrder[1]
            \/ \E n \in 1..(Len(StageOrder) - 1) :
                  pc = StageOrder[n] /\ pc' = StageOrder[n + 1]
            \/ pc \in Range(StageOrder) /\ pc' = "idle" /\ result'.kind = "raised"
            \/ pc = "extract" /\ pc' = "idle" /\ result'.kind = "returned"]_vars
    /\ []((using = "TriMeshCorresponder" /\ pc \in {"rasterize", "extract"}) =>
            w_3d.trilist = prune_trilist(c.f_interp.radius,
                                         [w_3d EXCEPT !.trilist = w_2d.trilist],
                                         c.f_interp.cy_dead_zone))

\* a second call has gone through every stage and returned, after pruning
\* took triangles away from the mesh that was rasterized
C11_Witness ==
    /\ using = "TriMeshCorresponder" /\ pc = "extract" /\ ncalls = 2
    /\ images # None
    /\ Len(w_3d.trilist) < Len(rigid_aligned_mesh.trilist)

AlignedLandmarks(m, target) ==
    [i \in 1..Len(m.landmarks) |->
        SimilarityApply(AlignmentSimilarity(m.landmarks, target).val, m.landmarks[i])]

\* C12 as stated: the landmarks of the returned mesh are at the positions of
\* the landmarks of the mesh the caller passed.
C12_OutputCarriesInputLandmarks ==
    \A e \in Corresponded : e.value.tm.landmarks = e.mesh.landmarks

\* C12 as amended: the returned mesh carries the landmarks of the rigidly
\* aligned mesh, that is, as many landmarks as the input mesh, each at the
\* position the alignment moved it to, and not where flattening or the warp
\* put it.
C12_OutputCarriesAlignedLandmarks ==
    \A e \in Corresponded :
        /\ Len(e.value.tm.landmarks) = Len(e.mesh.landmarks)
        /\ e.value.tm.landmarks = AlignedLandmarks(e.mesh, c.f_interp.target)

\* a mesh was returned whose landmarks alignment had moved
C12_Witness ==
    \E e \in Corresponded :
        /\ e.value.tm.landmarks # e.mesh.landmarks
        /\ e.value.tm.landmarks # <<>>

\* C13: after the spline warp the landmarks of the warped mesh are the
\* flattened 2D landmarks of the target, index by index (coordinates are
\* integers here, so the tolerance is 0), whenever the spline could be fitted.
C13_LandmarkExactness ==
    /\ (using = "TriMeshCorresponder" /\ w_2d # None) =>
          /\ Len(w_2d.landmarks) = Len(c.f_interp.f_target_2d)
          /\ \A i \in 1..Len(w_2d.landmarks) :
                w_2d.landmarks[i] = c.f_interp.f_target_2d[i]
    /\ (using = "AFIRasterizer" /\ w_2d # None) =>
          /\ Len(w_2d.landmarks) = Len(a.afi.fi.f_tgt_2d)
          /\ \A i \in 1..Len(w_2d.landmarks) :
                w_2d.landmarks[i] = a.afi.fi.f_tgt_2d[i]

\* the warp moved the landmarks, and moved some point of the mesh differently
\* from another
C13_Witness ==
    /\ using = "TriMeshCorresponder" /\ pc = "append"
    /\ w_2d.landmarks # f_2d.landmarks
    /\ \E i, j \in 1..Len(w_2d.points) :
          <<w_2d.points[i][1] - f_2d.points[i][1], w_2d.points[i][2] - f_2d.points[i][2]>>
          # <<w_2d.points[j][1] - f_2d.points[j][1], w_2d.points[j][2] - f_2d.points[j][2]>>

\* what correspond returns for mesh m when neither the alignment nor the warp
\* is applied: m flattened, its depth kept, pruned, rasterized with its own
\* points and resampled
UnwarpedResult(self, m) ==
    LET unwrap(p) == CylindricalUnwrap(self.f_interp.radius, p)
        flat == ApplyToMesh(unwrap, m)
        pruned == [flat EXCEPT !.trilist =
                      prune_trilist(self.f_interp.radius, flat,
                                    self.f_interp.cy_dead_zone)]
        imgs == RasterizeMeshWithF3vInterpolant(self.r, pruned, m.points).val
    IN  [tm |-> CorrespondenceMesh(self, m, imgs),
         rgb_image |-> imgs.rgb_image, shape_image |-> imgs.shape_image]

\* C14: when the landmarks of the input mesh equal the target, the rigidly
\* aligned mesh is the input mesh, the warped mesh is the flattened mesh, and
\* what correspond returns is the flattened, pruned, rasterized and resampled
\* input mesh.
C14_IdentityCase ==
    /\ (using = "TriMeshCorresponder" /\ mesh # None
        /\ mesh.landmarks = c.f_interp.target) =>
          /\ rigid_aligned_mesh # None => rigid_aligned_mesh = mesh
          /\ w_2d # None => w_2d = f_2d
          /\ w_3d # None => w_3d.points = f_3d.points
    /\ \A e \in Corresponded :
          e.mesh.landmarks = c.f_interp.target => e.value = UnwarpedResult(c, e.mesh)

\* a mesh with points and triangles whose landmarks are the target was
\* returned, and sampled on a grid that is not empty
C14_Witness ==
    \E e \in Corresponded :
        /\ e.mesh.landmarks = c.f_interp.target
        /\ e.mesh.trilist # <<>>
        /\ e.value.tm.points # <<>>
        /\ \E q \in DOMAIN e.value.shape_image.mask : e.value.shape_image.mask[q]

C16_CountMismatchRaises ==
    /\ [][\/ pc = "align" /\ Len(mesh.landmarks) # Len(c.f_interp.target)
          \/ pc = "afi_align" /\ Len(mesh.landmarks) # Len(a.afi.target)
          => /\ pc' = "idle"
             /\ result' = [kind |-> "raised", err |-> "DimensionMismatchError"]
             /\ returned' = returned
             /\ images = None /\ images' = None]_vars
    /\ [](pc \in {"rasterize", "extract", "afi_rasterize", "afi_return"} =>
             Len(mesh.landmarks) = Len(options.target))

\* a call has just ended with DimensionMismatchError, after an earlier call on
\* the same object had returned
C16_Witness ==
    /\ pc = "idle"
    /\ result = [kind |-> "raised", err |-> "DimensionMismatchError"]
    /\ returned # {}

\* the pixels of the mask that lie on the lattice of the given spacing
MaskedLattice(mask, rate) ==
    {q \in Pixels(mask.height, mask.width) :
        q[1] % rate = 0 /\ q[2] % rate = 0 /\ mask.mask[q]}

Sampled(self) == {<<self.s_x[i], self.s_y[i]>> : i \in 1..Len(self.s_x)}

\* C17: the sampling coordinates are exactly the pixels (row, col) of the mask
\* with row and col multiples of sampling_rate inside the image: all of them
\* are in the mask, none is missing, none comes twice; at rate 1 they are all
\* the pixels of the mask.
C17_SamplesAreMaskedLattice ==
    Constructed(c) =>
        /\ Len(c.s_x) = Len(c.s_y)
        /\ Sampled(c) = MaskedLattice(c.mask, c.sampling_rate)
        /\ Len(c.s_x) = Cardinality(MaskedLattice(c.mask, c.sampling_rate))
        /\ c.sampling_rate = 1 =>
              Sampled(c) = {q \in DOMAIN c.mask.mask : c.mask.mask[q]}

\* a corresponder sampling every second pixel of a mask that leaves out a
\* lattice pixel and contains pixels off the lattice
C17_Witness ==
    /\ Constructed(c) /\ c.sampling_rate = 2
    /\ Len(c.s_x) >= 2
    /\ \E q \in DOMAIN c.mask.mask :
          q[1] % 2 = 0 /\ q[2] % 2 = 0 /\ ~ c.mask.mask[q]
    /\ \E q \in DOMAIN c.mask.mask : q[1] % 2 = 1 /\ c.mask.mask[q]

\* the mask constrain_mask_to_landmarks() leaves on a blank image of the
\* rasterizer's shape carrying the target's image landmarks
ConstrainedMask(self) ==
    ConstrainMaskToLandmarks(self.r.height, self.r.width, self.img_tgt_2d)

\* C18: the stored mask is the landmark-constrained mask dilated mask_dilation
\* times; it contains the landmark-constrained mask, equals it when
\* mask_dilation is 0, and the sampling coordinates and the triangle list are
\* those of this stored mask.
C18_MaskIsDilatedConstrainedMask ==
    Constructed(c) =>
        /\ c.mask.mask = BinaryDilation(ConstrainedMask(c), options.mask_dilation)
        /\ \A q \in DOMAIN c.mask.mask : ConstrainedMask(c)[q] => c.mask.mask[q]
        /\ options.mask_dilation = 0 => c.mask.mask = ConstrainedMask(c)
        /\ Sampled(c) = MaskedLattice(c.mask, c.sampling_rate)
        /\ [s_x |-> c.s_x, s_y |-> c.s_y, trilist |-> c.trilist]
              = sample_points_and_trilist(c.mask, c.sampling_rate)

\* a corresponder whose dilation added pixels to the mask, all of them sampled
C18_Witness ==
    /\ Constructed(c) /\ options.mask_dilation > 0
    /\ \E q \in DOMAIN c.mask.mask : c.mask.mask[q] /\ ~ ConstrainedMask(c)[q]
    /\ \E q \in DOMAIN c.mask.mask : ~ c.mask.mask[q]
    /\ \E q \in Sampled(c) : ~ ConstrainedMask(c)[q]

\* C19: the returned mesh is a TexturedTriMesh exactly if the input mesh is
\* one; then it has one texture coordinate per point and its texture is the
\* rgb image returned by the same call; otherwise it is a plain TriMesh.  In
\* both cases its points are the shape image of the call read at the
\* sampling coordinates.
C19_VariantFollowsInput ==
    \A e \in Corresponded :
        LET tm == e.value.tm
        IN  /\ tm.textured = e.mesh.textured
            /\ e.mesh.textured =>
                  /\ {"tcoords", "texture"} \subseteq DOMAIN tm
                  /\ Len(tm.tcoords) = Len(tm.points)
                  /\ tm.texture = e.value.rgb_image
            /\ ~ e.mesh.textured => {"tcoords", "texture"} \cap DOMAIN tm = {}
            /\ tm.points = [i \in 1..Len(c.s_x) |->
                               e.value.shape_image.pixels[<<c.s_x[i], c.s_y[i]>>]]

\* a textured and a plain mesh were returned by one corresponder, with points
\* read from pixels a triangle covered
C19_Witness ==
    \E e1, e2 \in Corresponded :
        /\ e1.mesh.textured /\ ~ e2.mesh.textured
        /\ \E i \in 1..Len(c.s_x) :
              e1.value.shape_image.mask[<<c.s_x[i], c.s_y[i]>>]
        /\ e1.value.tm.points # <<>> /\ e2.value.tm.points # <<>>

\* C20: the rigidly aligned mesh is a new mesh: the similarity fitted on the
\* landmarks applied to every point and every landmark of the input mesh, with
\* the input's triangle list; the mesh the caller passed keeps its points,
\* triangle list and landmarks throughout the call and after it.
C20_InputMeshUntouched ==
    /\ [][(pc # "idle" /\ pc' # "idle") => mesh' = mesh]_vars
    /\ [](/\ mesh # None => mesh \in Meshes
          /\ \A e \in returned : e.mesh \in Meshes
          /\ rigid_aligned_mesh # None =>
                /\ rigid_aligned_mesh.points = AlignedPoints(mesh, options.target)
                /\ rigid_aligned_mesh.landmarks = AlignedLandmarks(mesh, options.target)
                /\ rigid_aligned_mesh.trilist = mesh.trilist)

\* a call is about to return for a mesh that alignment moved, among its points
\* one that is no landmark
C20_Witness ==
    /\ pc \in {"extract", "afi_return"}
    /\ rigid_aligned_mesh.points # mesh.points
    /\ \E i \in 1..Len(mesh.points) :
          /\ mesh.points[i] \notin Range(mesh.landmarks)
          /\ rigid_aligned_mesh.points[i] # mesh.points[i]

\* C21: the mesh AlignFlattenInterp returns, which AFIRasterizer hands to the
\* rasterizer, has no triangle with one vertex left of -(1-d)*pi*r and one
\* right of (1-d)*pi*r, d being the configured edge_dead_zone.
C21_AFIMeshHasNoSeamTriangle ==
    pc = "afi_rasterize" =>
        \A tri \in Range(w_3d.trilist) :
            ~ Spans(tri, w_3d.points, a.afi.fi.flattener, a.afi.edge_dead_zone)

\* what a call of ext_setup_kwargs finds: a declared pyx file is missing, the
\* declared extensions without a cythonized file, a usable Cython
PyxMissing ==
    \E i \in 1..Len(env.extension_specs) :
        env.extension_specs[i].pyx_path \notin env.files
NeedingCython ==
    {i \in 1..Len(env.extension_specs) :
        Path(env.extension_specs[i].pyx_path.components, "cpp") \notin env.files}
UsableCython ==
    /\ env.cython_version > 0
    /\ env.min_cython_version > 0 => env.cython_version >= env.min_cython_version

\* C22: ext_setup_kwargs raises ValueError when a declared pyx file is missing
\* and when an extension is not cythonized while no Cython of the minimum
\* version is installed; with every extension cythonized it returns, with or
\* without Cython; the cmdclass it returns has 'build_ext', and has 'cython'
\* or the Cython-invoking 'sdist' only if an extension needs cythonizing.
C22_ExtSetupValidation ==
    (out # None /\ env.fn = "ext_setup_kwargs") =>
        /\ PyxMissing => out = Err("ValueError")
        /\ (NeedingCython # {} /\ ~ UsableCython) => out = Err("ValueError")
        /\ (~ PyxMissing /\ NeedingCython = {}) => out.ok
        /\ out.ok =>
              /\ "build_ext" \in DOMAIN out.val.cmdclass
              /\ "cython" \in DOMAIN out.val.cmdclass => NeedingCython # {}
              /\ ("sdist" \in DOMAIN out.val.cmdclass
                  /\ out.val.cmdclass["sdist"].cls = "SDistInvokingCython")
                 => NeedingCython # {}

\* a call that returned the cython command and the Cython-invoking sdist on
\* top of the caller's own commands, one extension being cythonized already
C22_Witness ==
    /\ out # None /\ env.fn = "ext_setup_kwargs" /\ out.ok
    /\ env.cmdclass # None /\ env.min_cython_version > 0
    /\ {"cython", "sdist", "version", "build_ext"} \subseteq DOMAIN out.val.cmdclass
    /\ out.val.cmdclass["sdist"].cls = "SDistInvokingCython"
    /\ Cardinality(NeedingCython) = 1 /\ Len(env.extension_specs) = 2

\* C23: a dense hog call whose window, in pixels, is larger than the image
\* raises ValueError, so the window height and width WindowIterator is
\* constructed with are at most the height and width of the image, and at
\* least one block, whatever the algorithm and the window unit.
C23_HogWindowWithinImage ==
    (out # None /\ env.fn = "hog" /\ env.mode = "dense" /\ out.ok) =>
        /\ out.val.iterator.window_height <= env.shape[1]
        /\ out.val.iterator.window_width <= env.shape[2]
        /\ out.val.iterator.window_height >= env.block_size * env.cell_size
        /\ out.val.iterator.window_width >= env.block_size * env.cell_size

\* C24: with a features list of size 1, the pyramid built for every image
\* has n_levels levels whether pyramid_on_features is true or false, and
\* when it is false its i-th image is the i-th pyramid level with one
\* feature applied to it.
C24_PyramidHasNLevels ==
    (/\ out # None
     /\ env.fn \in {"create_pyramid", "pyramid_of_feature_images"}
     /\ Len(env.features) = 1) =>
        /\ out.ok
        /\ \A k \in 1..Len(out.val) :
            /\ Len(out.val[k]) = env.n_levels
            /\ ~ env.pyramid_on_features =>
                \A i \in 1..Len(out.val[k]) :
                    /\ out.val[k][i].level = i - 1
                    /\ Len(out.val[k][i].features) = 1

\* C25: every sampling coordinate (s_x[i], s_y[i]) computed at construction
\* is a (row, column) of every shape image the rasterizer returns, with
\* row < image height and column < image width, and every index of the
\* triangle list of an output mesh names one of its points, so the
\* resampling never reads outside the image.
C25_SamplingWithinBounds ==
    Constructed(c) =>
        /\ images # None =>
            \A i \in 1..Len(c.s_x) :
                /\ <<c.s_x[i], c.s_y[i]>> \in DOMAIN images.shape_image.pixels
                /\ c.s_x[i] >= 0 /\ c.s_x[i] < images.shape_image.height
                /\ c.s_y[i] >= 0 /\ c.s_y[i] < images.shape_image.width
        /\ \A e \in returned :
            e.callee = "correspond" =>
                /\ \A i \in 1..Len(c.s_x) :
                      /\ c.s_x[i] < e.value.shape_image.height
                      /\ c.s_y[i] < e.value.shape_image.width
                /\ Len(e.value.tm.points) = Len(c.s_x)
                /\ \A n \in 1..Len(e.value.tm.trilist) :
                      \A j \in 1..3 :
                          e.value.tm.trilist[n][j] \in 1..Len(e.value.tm.points)

\* a mesh was resampled from an image that is wider than tall, at a sample
\* of the last row and a sample of the last column, and has triangles
C25_Witness ==
    /\ Constructed(c)
    /\ \E e \in returned :
        /\ e.callee = "correspond"
        /\ e.value.shape_image.height < e.value.shape_image.width
        /\ \E i \in 1..Len(c.s_x) : c.s_x[i] = e.value.shape_image.height - 1
        /\ \E i \in 1..Len(c.s_x) : c.s_y[i] = e.value.shape_image.width - 1
        /\ Len(e.value.tm.trilist) > 0

C27_OneExtensionPerSpec ==
    (out # None /\ env.fn = "ext_setup_kwargs" /\ out.ok) =>
        /\ Len(out.val.ext_modules) = Len(env.extension_specs)
        /\ \A i \in 1..Len(env.extension_specs) :
              Cardinality({j \in 1..Len(out.val.ext_modules) :
                  out.val.ext_modules[j].name =
                      DottedName(env.extension_specs[i].pyx_path.components)}) = 1

\* the sources an extension spec declares
DeclaredSources(e) == IF "sources" \in DOMAIN e THEN e.sources ELSE <<>>

\* C28: the extra source files an extension spec declares are part of the
\* sources of the Extension built from it: the cythonized file followed by
\* all declared sources when it is built as already cythonized, the declared
\* sources when it is built as cythonizable.
C28_DeclaredSourcesAreBuilt ==
    (out # None /\ env.fn = "ext_setup_kwargs" /\ out.ok) =>
        \A i \in 1..Len(env.extension_specs) :
            \A j \in 1..Len(out.val.ext_modules) :
                LET e == env.extension_specs[i]
                    m == out.val.ext_modules[j]
                IN  m.name = DottedName(e.pyx_path.components) =>
                        m.sources =
                            IF NeedingCython = {}
                            THEN <<Path(e.pyx_path.components, "cpp")>>
                                 \o DeclaredSources(e)
                            ELSE DeclaredSources(e)

\* the extent (along x, along y) of the bounding box of the flattened target
FlattenedExtent(target) ==
    PointCloudRange([i \in 1..Len(target) |->
        ExtractNDims2(CylindricalUnwrap(OptimalRadius(target), target[i]))])

\* C29: for a target whose flattened bounding box has positive width and
\* positive height, and an image width of 1 or more, construction gives a
\* rasterizer (and a blank sample image) at least 1 pixel high; a target
\* whose bounding box has no extent in a dimension is not accepted.
C29_ImageHeightPositive ==
    (out # None /\ env.fn \in {"TriMeshCorresponder", "AFIRasterizer"}) =>
        LET extent == FlattenedExtent(env.cfg.target)
        IN  /\ (extent[1] > 0 /\ extent[2] > 0 /\ env.cfg.image_width >= 1) =>
                  /\ out.ok
                  /\ out.val.r.height >= 1
                  /\ env.fn = "TriMeshCorresponder" => out.val.mask.height >= 1
            /\ (extent[1] = 0 \/ extent[2] = 0) => ~ out.ok

\* C30: seam pruning is idempotent and monotone: for fixed points, a radius
\* above 0 and a dead zone from 0 to 1, pruning a pruned triangle list removes
\* nothing more, and the triangles kept with a larger dead zone are among the
\* triangles kept with a smaller one.
C30_PruneIdempotentMonotone ==
    (out # None /\ env.fn = "prune_trilist") =>
        /\ out.twice = out.once
        /\ env.other_dead_zone >= env.dead_zone =>
              Range(out.other) \subseteq Range(out.once)
        /\ env.other_dead_zone <= env.dead_zone =>
              Range(out.once) \subseteq Range(out.other)

\* a pruning that removed some triangles and kept others, next to one with a
\* larger dead zone that kept strictly fewer
C30_Witness ==
    /\ out # None /\ env.fn = "prune_trilist"
    /\ env.other_dead_zone > env.dead_zone
    /\ 0 < Len(out.once) /\ Len(out.once) < 4
    /\ Len(out.other) < Len(out.once)
====
